---- MODULE Spec2Model ----
(***************************************************************************)
(* A model of the `blend` crate (lukebitts/blend): the header + block      *)
(* framer (src/src/parsers/blend.rs), the SDNA decoder                     *)
(* (src/blend/src/parsers/dna.rs), the field-name parser                   *)
(* (src/blend/src/parsers/field.rs) and the runtime accessors              *)
(* (src/src/runtime.rs).                                                   *)
(*                                                                         *)
(* Bytes are naturals 0..255.  Strings are sequences of their ASCII codes. *)
(* A u64 is kept as its 8 base-256 digits, most significant first, so that *)
(* no 64-bit quantity is ever folded into a machine integer.               *)
(***************************************************************************)
EXTENDS Integers, Sequences, FiniteSets, TLC

VARIABLES
    gen,      \* the description the input buffer was written from (ghost)
    input,    \* RawBlend::from_data: `buffer`
    pc,       \* position of the framer / of the runtime driver
    rest,     \* the framer's remaining input
    header,   \* BlendParseContext::ParsedHeader(header)
    blocks,   \* many_till's accumulator of parsed blocks
    res,      \* the nom result of BlendParseContext::blend
    out,      \* what RawBlend::from_data returned
    blend,    \* runtime: the RawBlend a Blend wraps
    inst,     \* runtime: the Instance the caller holds
    call,     \* runtime: the last accessor call and its outcome
    iter      \* runtime: the iterator get_iter returned, and what it yielded (ghost)

vars == <<gen, input, pc, rest, header, blocks, res, out, blend, inst, call, iter>>

framerVars == <<gen, input, pc, rest, header, blocks, res, out>>
runtimeVars == <<blend, inst, call, iter>>

---------------------------------------------------------------------------
(* Bounds of the model *)

\* most block records written before the terminator
MaxBlocks == 2
\* most bytes cut off the end of the written file
MaxCut == 16

---------------------------------------------------------------------------
(* Byte strings the parsers match *)

BLENDER == <<66, 76, 69, 78, 68, 69, 82>>
REND == <<82, 69, 78, 68>>
TEST == <<84, 69, 83, 84>>
GLOB == <<71, 76, 79, 66>>
DATA == <<68, 65, 84, 65>>
DNA1 == <<68, 78, 65, 49>>
ENDB == <<69, 78, 68, 66>>
SDNA == <<83, 68, 78, 65>>
NAME == <<78, 65, 77, 69>>
TYPE == <<84, 89, 80, 69>>
TLEN == <<84, 76, 69, 78>>
STRC == <<83, 84, 82, 67>>
\* "_" and "-" : pointer size; "v" and "V" : endianness
Underscore == <<95>>
Dash == <<45>>
LowerV == <<118>>
UpperV == <<86>>
NUL == <<0>>

---------------------------------------------------------------------------
(* nom results: IResult<&[u8], T, BlendParseError> *)

Ok(r, v) == [kind |-> "Ok", rest |-> r, val |-> v, err |-> "none"]
Error(e) == [kind |-> "Error", rest |-> <<>>, val |-> <<>>, err |-> e]
Failure(e) == [kind |-> "Failure", rest |-> <<>>, val |-> <<>>, err |-> e]

\* BlendParseError::from_error_kind / append: every nom error kind becomes NomError
from_error_kind == "NomError"
append(e) == "NomError"

\* the `?` operator: the error is returned, the success goes on
Bind(r, F(_)) == IF r.kind # "Ok" THEN r ELSE F(r)

Drop(i, n) == SubSeq(i, n + 1, Len(i))
Take(i, n) == SubSeq(i, 1, n)

\* nom::bytes::complete::take
take(n, i) ==
    IF Len(i) < n THEN Error(from_error_kind) ELSE Ok(Drop(i, n), Take(i, n))

\* nom::bytes::complete::tag
tag(t, i) ==
    IF Len(i) >= Len(t) /\ Take(i, Len(t)) = t
    THEN Ok(Drop(i, Len(t)), t)
    ELSE Error(from_error_kind)

Reverse(s) == [k \in 1..Len(s) |-> s[Len(s) + 1 - k]]

RECURSIVE BeValue(_)
\* the number a most-significant-first digit string denotes
BeValue(d) ==
    IF Len(d) = 0 THEN 0 ELSE 256 * BeValue(Take(d, Len(d) - 1)) + d[Len(d)]

\* nom::number::complete::{le_u16, be_u16, le_u32, be_u32}
le_uint(w, i) ==
    IF Len(i) < w THEN Error(from_error_kind)
    ELSE Ok(Drop(i, w), BeValue(Reverse(Take(i, w))))
be_uint(w, i) ==
    IF Len(i) < w THEN Error(from_error_kind)
    ELSE Ok(Drop(i, w), BeValue(Take(i, w)))

\* the number read most significant byte first, whatever the header announced
uint_be(w, e, i) == be_uint(w, i)

\* `match endianness { Little => le_u32(input)?, Big => be_u32(input)? }`
uint(w, e, i) == IF e = "Little" THEN le_uint(w, i) ELSE be_uint(w, i)

\* a u64 as 8 digits, most significant first, from w bytes read in endianness e
\* (le_u64 / be_u64, and u64::from(u32) for 4 bytes)
Digits64(bytes, e) ==
    [k \in 1..(8 - Len(bytes)) |-> 0] \o (IF e = "Little" THEN Reverse(bytes) ELSE bytes)

\* NonZeroU64::new(address).is_some()
NonZeroU64(a) == \E k \in 1..Len(a) : a[k] # 0

---------------------------------------------------------------------------
(* The SDNA decoder: DnaParseContext (src/blend/src/parsers/dna.rs) *)

NoDna == [names |-> <<>>, types |-> <<>>, structs |-> <<>>]

\* index of the first zero byte of i, or 0 when there is none
IndexOfZero(i) ==
    IF \E k \in 1..Len(i) : i[k] = 0
    THEN CHOOSE k \in 1..Len(i) : i[k] = 0 /\ \A j \in 1..(k - 1) : i[j] # 0
    ELSE 0

RECURSIVE cstrings(_, _, _)
\* count(terminated(map(take_while(|b| b != 0), from_utf8_lossy), tag("\0")), n)
\* (the model's names are ASCII, on which from_utf8_lossy changes nothing)
cstrings(n, i, acc) ==
    IF n = 0 THEN Ok(i, acc)
    ELSE IF IndexOfZero(i) = 0 THEN Error(append(from_error_kind))
    ELSE cstrings(n - 1, Drop(i, IndexOfZero(i)),
                  Append(acc, Take(i, IndexOfZero(i) - 1)))

\* `while sum % 4 != 0 { sum += 1 }; sum - res`
skip_len(sum) == (4 - (sum % 4)) % 4

RECURSIVE uints(_, _, _, _, _)
\* count(le_u16 | be_u16, n)
uints(w, e, n, i, acc) ==
    IF n = 0 THEN Ok(i, acc)
    ELSE Bind(uint(w, e, i), LAMBDA r :
         uints(w, e, n - 1, r.rest, Append(acc, r.val)))

\* DnaParseContext::names
names(e, i) ==
    Bind(tag(NAME, i), LAMBDA t :
    Bind(uint(4, e, t.rest), LAMBDA n :
    Bind(cstrings(n.val, n.rest, <<>>), LAMBDA c :
    \* all_names_len is the number of bytes the strings took
    Bind(take(skip_len(Len(n.rest) - Len(c.rest)), c.rest), LAMBDA s :
    Ok(s.rest, c.val)))))

\* DnaParseContext::types, `type_names.into_iter().zip(type_lenghts)`
zip_types(type_names, type_lenghts) ==
    [k \in 1..Len(type_names) |-> [name |-> type_names[k], bytes_len |-> type_lenghts[k]]]

\* DnaParseContext::types
types(e, i) ==
    Bind(tag(TYPE, i), LAMBDA t :
    Bind(uint(4, e, t.rest), LAMBDA n :
    Bind(cstrings(n.val, n.rest, <<>>), LAMBDA c :
    Bind(take(skip_len(Len(n.rest) - Len(c.rest)), c.rest), LAMBDA s :
    Bind(tag(TLEN, s.rest), LAMBDA l :
    Bind(uints(2, e, n.val, l.rest, <<>>), LAMBDA u :
    Bind(take(skip_len(n.val * 2), u.rest), LAMBDA s2 :
    Ok(s2.rest, zip_types(c.val, u.val)))))))))

RECURSIVE dna_fields(_, _, _, _)
\* the inner loop of DnaParseContext::structs: fields_num x (u16 type, u16 name)
dna_fields(e, n, i, acc) ==
    IF n = 0 THEN Ok(i, acc)
    ELSE Bind(uint(2, e, i), LAMBDA t :
         Bind(uint(2, e, t.rest), LAMBDA m :
         dna_fields(e, n - 1, m.rest,
                    Append(acc, [type_index |-> t.val, name_index |-> m.val]))))

RECURSIVE dna_structs(_, _, _, _)
\* the outer loop of DnaParseContext::structs
dna_structs(e, n, i, acc) ==
    IF n = 0 THEN Ok(i, acc)
    ELSE Bind(uint(2, e, i), LAMBDA t :
         Bind(uint(2, e, t.rest), LAMBDA c :
         Bind(dna_fields(e, c.val, c.rest, <<>>), LAMBDA f :
         dna_structs(e, n - 1, f.rest,
                     Append(acc, [type_index |-> t.val, fields |-> f.val])))))

\* DnaParseContext::structs
structs(e, i) ==
    Bind(tag(STRC, i), LAMBDA t :
    Bind(uint(4, e, t.rest), LAMBDA n :
    dna_structs(e, n.val, n.rest, <<>>)))

\* DnaParseContext::dna
dna(e, i) ==
    Bind(tag(SDNA, i), LAMBDA t :
    Bind(names(e, t.rest), LAMBDA n :
    Bind(types(e, n.rest), LAMBDA y :
    Bind(structs(e, y.rest), LAMBDA s :
    Ok(s.rest, [names |-> n.val, types |-> y.val, structs |-> s.val])))))

---------------------------------------------------------------------------
(* The framer: src/src/parsers/blend.rs *)

\* PointerSize::bytes_num
bytes_num(p) == IF p = "Bits32" THEN 4 ELSE 8

\* nom::branch::alt over two parsers whose results are a and b
alt(a, b) == IF a.kind # "Error" THEN a ELSE IF b.kind # "Error" THEN b
             ELSE Error(append(b.err))

\* a parser's value replaced, as in `Ok((input, PointerSize::Bits32))`
Value(r, v) == IF r.kind = "Ok" THEN Ok(r.rest, v) ELSE r

\* alt((pointer_size_bits32, pointer_size_bits64))
pointer_size(i) ==
    alt(Value(tag(Underscore, i), "Bits32"), Value(tag(Dash, i), "Bits64"))

\* alt((endianness_litte, endianness_big))
endianness(i) ==
    alt(Value(tag(LowerV, i), "Little"), Value(tag(UpperV, i), "Big"))

version(i) == take(3, i)

\* the `match tag("BLENDER")(input)` of `header`
blender_tag(r) == IF r.kind = "Ok" THEN r ELSE Failure("CompressedFileNotSupported")

\* pub fn header
parse_header(i) ==
    Bind(blender_tag(tag(BLENDER, i)), LAMBDA m :
    Bind(pointer_size(m.rest), LAMBDA p :
    Bind(endianness(p.rest), LAMBDA e :
    Bind(version(e.rest), LAMBDA v :
    Ok(v.rest, [pointer_size |-> p.val, endianness |-> e.val, version |-> v.val])))))

block_header_code(i) == take(4, i)

nonzero_address_unchecked(r, address) == Ok(r, address)

\* `if let Some(address) = NonZeroU64::new(address)`, else InvalidMemoryAddress
nonzero_address(r, address) ==
    IF NonZeroU64(address) THEN Ok(r, address) ELSE Failure("InvalidMemoryAddress")

\* BlendParseContext::memory_address
memory_address(h, i) ==
    Bind(take(bytes_num(h.pointer_size), i), LAMBDA d :
    nonzero_address(d.rest, Digits64(d.val, h.endianness)))

\* the Block variants; a variant's absent fields hold fixed fillers
Block(variant, code, address, dna_index, data, count, d) ==
    [variant |-> variant, code |-> code, memory_address |-> address,
     dna_index |-> dna_index, data |-> data, count |-> count, dna |-> d]
BlockRend == Block("Rend", <<>>, <<>>, 0, <<>>, 0, NoDna)
BlockTest == Block("Test", <<>>, <<>>, 0, <<>>, 0, NoDna)

\* a parser's result with the remaining input put in, as in `Ok((input, block))`
After(r, b) == IF b.kind = "Ok" THEN Ok(r, b.val) ELSE b

\* the DNA1 arm: `let (_, dna) = ctx.dna(block_data)?; Block::Dna(dna)`
dna_block(d) == Value(d, Block("Dna", <<>>, <<>>, 0, <<>>, 0, d.val))

principal_any_count(code, address, dna_index, count, block_data) ==
    Ok(<<>>, Block("Principal", Take(code, 2), address, dna_index, block_data, 1, NoDna))

\* the `[code1, code2, 0, 0]` arm: `if count != 1 { Err(Failure(..)) } else { Block::Principal }`
principal(code, address, dna_index, count, block_data) ==
    IF count # 1 THEN Failure("UnsupportedCountOnPrincipalBlock")
    ELSE Ok(<<>>, Block("Principal", Take(code, 2), address, dna_index, block_data, 1, NoDna))

is_root_code_three_bytes(code) == code[4] = 0

\* the pattern `[code1, code2, 0, 0]`
is_root_code(code) == code[3] = 0 /\ code[4] = 0

\* the match with the DATA arm making a Block::Global
block_of_code_data_as_global(h, code, address, dna_index, count, block_data) ==
    IF code = REND THEN Ok(<<>>, BlockRend)
    ELSE IF code = TEST THEN Ok(<<>>, BlockTest)
    ELSE IF code \in {GLOB, DATA}
    THEN Ok(<<>>, Block("Global", <<>>, address, dna_index, block_data, count, NoDna))
    ELSE IF code = DNA1
    THEN dna_block(dna(h.endianness, block_data))
    ELSE IF is_root_code(code)
    THEN principal(code, address, dna_index, count, block_data)
    ELSE Failure("UnknownBlockCode")

\* the `match &code` of BlendParseContext::block
block_of_code(h, code, address, dna_index, count, block_data) ==
    IF code = REND THEN Ok(<<>>, BlockRend)
    ELSE IF code = TEST THEN Ok(<<>>, BlockTest)
    ELSE IF code = GLOB
    THEN Ok(<<>>, Block("Global", <<>>, address, dna_index, block_data, count, NoDna))
    ELSE IF code = DATA
    THEN Ok(<<>>, Block("Subsidiary", <<>>, address, dna_index, block_data, count, NoDna))
    ELSE IF code = DNA1
    THEN dna_block(dna(h.endianness, block_data))
    ELSE IF is_root_code(code)
    THEN principal(code, address, dna_index, count, block_data)
    ELSE Failure("UnknownBlockCode")

\* BlendParseContext::block
block(h, i) ==
    Bind(block_header_code(i), LAMBDA c :
    Bind(uint(4, h.endianness, c.rest), LAMBDA size :
    Bind(memory_address(h, size.rest), LAMBDA a :
    Bind(uint(4, h.endianness, a.rest), LAMBDA dna_index :
    Bind(uint(4, h.endianness, dna_index.rest), LAMBDA count :
    Bind(take(size.val, count.rest), LAMBDA block_data :
    After(block_data.rest,
          block_of_code(h, c.val, a.val, dna_index.val, count.val, block_data.val))
    ))))))

---------------------------------------------------------------------------
(* The files the framer is run on: what Blender's writer lays out (the      *)
(* layout the framer reads back), cut short by gen.cut bytes.              *)

RECURSIVE Concat(_)
Concat(ss) == IF Len(ss) = 0 THEN <<>> ELSE Head(ss) \o Concat(Tail(ss))

RECURSIVE LeDigits(_, _)
LeDigits(n, w) == IF w = 0 THEN <<>> ELSE <<n % 256>> \o LeDigits(n \div 256, w - 1)

\* n in w bytes, in endianness e
EncUInt(n, w, e) == IF e = "Little" THEN LeDigits(n, w) ELSE Reverse(LeDigits(n, w))

Pad4(n) == [k \in 1..skip_len(n) |-> 0]

CStrings(ss) == Concat([k \in 1..Len(ss) |-> ss[k] \o NUL])

\* the DNA1 payload of d
WriteDna(d, e) ==
    LET ns == CStrings(d.names)
        ts == CStrings([k \in 1..Len(d.types) |-> d.types[k].name])
        ls == Concat([k \in 1..Len(d.types) |-> EncUInt(d.types[k].bytes_len, 2, e)])
        fs(f) == Concat([k \in 1..Len(f) |->
                    EncUInt(f[k].type_index, 2, e) \o EncUInt(f[k].name_index, 2, e)])
        ss == Concat([k \in 1..Len(d.structs) |->
                    EncUInt(d.structs[k].type_index, 2, e)
                    \o EncUInt(Len(d.structs[k].fields), 2, e)
                    \o fs(d.structs[k].fields)])
    IN  SDNA \o NAME \o EncUInt(Len(d.names), 4, e) \o ns \o Pad4(Len(ns))
        \o TYPE \o EncUInt(Len(d.types), 4, e) \o ts \o Pad4(Len(ts))
        \o TLEN \o ls \o Pad4(Len(ls))
        \o STRC \o EncUInt(Len(d.structs), 4, e) \o ss

\* one name "a", one type "t" of 1 byte, one struct t { t a; }
TinyDna ==
    [names |-> << <<97>> >>,
     types |-> << [name |-> <<116>>, bytes_len |-> 1] >>,
     structs |-> << [type_index |-> 0,
                     fields |-> << [type_index |-> 0, name_index |-> 0] >>] >>]

\* "OB\0\0": a two-letter root code; "OBJ\0" and "OBJS": no code the framer knows
OB00 == <<79, 66, 0, 0>>
OBJ0 == <<79, 66, 74, 0>>
OBJS == <<79, 66, 74, 83>>

GenCodes == {REND, TEST, GLOB, DATA, DNA1, OB00, OBJ0, OBJS}

\* a written block record
Rec(code, addr, sdna, count, payload) ==
    [code |-> code, addr |-> addr, sdna |-> sdna, count |-> count, payload |-> payload]

PayloadOf(code, e) ==
    IF code = DNA1 THEN WriteDna(TinyDna, e)
    ELSE IF code = DATA THEN <<7, 7>>
    ELSE IF code = OB00 THEN <<7>>
    ELSE <<>>

\* every record a file may hold
GenRecords(e) ==
    {Rec(c, a, 0, n, PayloadOf(c, e)) : c \in GenCodes, a \in {0, 1}, n \in {1, 2}}
    \cup {Rec(OB00, 2, 1, 1, <<7>>), Rec(DNA1, 2, 0, 1, SDNA), Rec(DATA, 2, 0, 0, <<>>),
          Rec(OBJS, 2, 0, 1, <<7>>)}

\* a written record the framer accepts
GenGood(r, e) ==
    /\ r.addr # 0
    /\ r.code \in {REND, TEST, GLOB, DATA, DNA1, OB00}
    /\ r.code = OB00 => r.count = 1
    /\ r.code = DNA1 => r.payload = WriteDna(TinyDna, e)

\* the accepted records that may precede a file's last record
GenPrefix(e) ==
    {Rec(c, 1, 0, 1, PayloadOf(c, e)) : c \in {REND, TEST, GLOB, DNA1, OB00}}
    \cup {Rec(DATA, 1, 0, 2, <<7, 7>>)}

GenLists(e) ==
    LET pre == UNION {[1..k -> GenPrefix(e)] : k \in 0..(MaxBlocks - 1)}
        last == {<<>>} \cup {<<r>> : r \in GenRecords(e)}
    IN  {p \o l : p \in pre, l \in last}

GenEndianness(g) == IF g.endianness = LowerV THEN "Little" ELSE "Big"
GenPointerBytes(g) == IF g.pointer_size = Underscore THEN 4 ELSE 8

WriteRecord(r, p, e) ==
    r.code \o EncUInt(Len(r.payload), 4, e) \o EncUInt(r.addr, p, e)
    \o EncUInt(r.sdna, 4, e) \o EncUInt(r.count, 4, e) \o r.payload

WriteFile(g) ==
    g.magic \o g.pointer_size \o g.endianness \o <<50, 56, 48>>
    \o Concat([k \in 1..Len(g.recs) |->
                 WriteRecord(g.recs[k], GenPointerBytes(g), GenEndianness(g))])
    \o ENDB

Gen(m, p, e, rs, c) ==
    [magic |-> m, pointer_size |-> p, endianness |-> e, recs |-> rs, cut |-> c]

\* a gzip stream's first bytes, where "BLENDER" is expected
GzipMagic == <<31, 139, 8, 0, 0, 0, 0>>

\* the well-formed headers, and three that are not: a gzip stream, an unknown
\* pointer-size character, an unknown endianness character
GenHeaders ==
    {<<BLENDER, p, e>> : p \in {Underscore, Dash}, e \in {LowerV, UpperV}}
    \cup {<<GzipMagic, Dash, LowerV>>, <<BLENDER, <<43>>, LowerV>>, <<BLENDER, Dash, <<119>>>>}

GenWellFormed(h) == h[1] = BLENDER /\ h[2] \in {Underscore, Dash} /\ h[3] \in {LowerV, UpperV}

NoHeader == [pointer_size |-> "none", endianness |-> "none", version |-> <<>>]
NoResult == [kind |-> "none", rest |-> <<>>, val |-> <<>>, err |-> "none"]
NoBlend == [header |-> NoHeader, blocks |-> <<>>, dna |-> NoDna]
NoOut == [returned |-> FALSE, ok |-> FALSE, err |-> "none", blend |-> NoBlend]
NoInst == [type_name |-> <<>>, data |-> [format |-> "none", block |-> 0, bytes |-> <<>>],
           fields |-> <<>>]
NoCall == [op |-> "none"]
NoIter == [it |-> [kind |-> "none"], state |-> "none", yielded |-> <<>>]

\* the buffer: the written file without its last g.cut bytes
Buffer(g, file) == Take(file, Len(file) - g.cut)

InitFramer ==
    /\ \E h \in GenHeaders :
         \E rs \in (IF GenWellFormed(h)
                    THEN GenLists(IF h[3] = LowerV THEN "Little" ELSE "Big")
                    ELSE {<<>>}) :
           \E c \in 0..MaxCut :
             /\ c <= Len(WriteFile(Gen(h[1], h[2], h[3], rs, c)))
             /\ gen = Gen(h[1], h[2], h[3], rs, c)
             /\ input = Buffer(Gen(h[1], h[2], h[3], rs, c),
                               WriteFile(Gen(h[1], h[2], h[3], rs, c)))
    /\ pc = "start"
    /\ rest = <<>>
    /\ header = NoHeader
    /\ blocks = <<>>
    /\ res = NoResult
    /\ out = NoOut
    /\ blend = NoBlend
    /\ inst = NoInst
    /\ call = NoCall
    /\ iter = NoIter

\* BlendParseContext::blend, `header(input)?` and the context switch
ParseHeader ==
    /\ pc = "start"
    /\ LET h == parse_header(input)
       IN  IF h.kind = "Ok"
           THEN /\ header' = h.val
                /\ rest' = h.rest
                /\ pc' = "blocks"
                /\ res' = res
           ELSE /\ res' = h
                /\ pc' = "map"
                /\ UNCHANGED <<header, rest>>
    /\ UNCHANGED <<gen, input, blocks, out, runtimeVars>>

\* many_till: the terminator tag("ENDB") matches
Terminator ==
    /\ pc = "blocks"
    /\ tag(ENDB, rest).kind = "Ok"
    /\ rest' = tag(ENDB, rest).rest
    /\ pc' = "pop"
    /\ UNCHANGED <<gen, input, header, blocks, res, out, runtimeVars>>

\* many_till: the terminator does not match and self.block parses a record
BlockParsed ==
    /\ pc = "blocks"
    /\ tag(ENDB, rest).kind = "Error"
    /\ LET b == block(header, rest)
       IN  /\ b.kind = "Ok"
           /\ IF b.rest = rest
              THEN /\ res' = Error(from_error_kind)
                   /\ pc' = "map"
                   /\ UNCHANGED <<blocks, rest>>
              ELSE /\ blocks' = Append(blocks, b.val)
                   /\ rest' = b.rest
                   /\ UNCHANGED <<res, pc>>
    /\ UNCHANGED <<gen, input, header, out, runtimeVars>>

\* many_till: the terminator does not match and self.block fails
BlockFailed ==
    /\ pc = "blocks"
    /\ tag(ENDB, rest).kind = "Error"
    /\ LET b == block(header, rest)
       IN  /\ b.kind # "Ok"
           /\ res' = IF b.kind = "Error" THEN Error(append(b.err)) ELSE b
    /\ pc' = "map"
    /\ UNCHANGED <<gen, input, rest, header, blocks, out, runtimeVars>>

pop_some_dna(bs) == \E k \in 1..Len(bs) : bs[k].variant = "Dna"

\* `if let Some(Block::Dna(dna)) = blocks.pop()`
pop_is_dna(bs) == Len(bs) > 0 /\ bs[Len(bs)].variant = "Dna"

\* BlendParseContext::blend, `blocks.pop()`
PopDna ==
    /\ pc = "pop"
    /\ IF pop_is_dna(blocks)
       THEN /\ res' = Ok(rest, [blocks |-> Take(blocks, Len(blocks) - 1),
                                dna |-> blocks[Len(blocks)].dna,
                                header |-> header])
            /\ blocks' = Take(blocks, Len(blocks) - 1)
       ELSE /\ res' = Failure("NoDnaBlockFound")
            /\ blocks' = IF Len(blocks) > 0 THEN Take(blocks, Len(blocks) - 1) ELSE blocks
    /\ pc' = "map"
    /\ UNCHANGED <<gen, input, rest, header, out, runtimeVars>>

\* RawBlend::from_data, `match res`
FromData ==
    /\ pc = "map"
    /\ out' = CASE res.kind = "Ok" ->
                     [returned |-> TRUE, ok |-> TRUE, err |-> "none", blend |-> res.val]
                [] res.kind \in {"Failure", "Error"} ->
                     [returned |-> TRUE, ok |-> FALSE, err |-> res.err, blend |-> NoBlend]
                [] OTHER ->
                     [returned |-> TRUE, ok |-> FALSE, err |-> "NotEnoughData",
                      blend |-> NoBlend]
    /\ pc' = "done"
    /\ UNCHANGED <<gen, input, rest, header, blocks, res, runtimeVars>>

NextFramer == ParseHeader \/ Terminator \/ BlockParsed \/ BlockFailed \/ PopDna \/ FromData

SpecFramer == InitFramer /\ [][NextFramer]_vars

---------------------------------------------------------------------------
(* Field names: parse_field (src/blend/src/parsers/field.rs) *)

LParenStar == <<40, 42>>
LParen == <<40>>
RParen == <<41>>
LBracket == <<91>>
RBracket == <<93>>
Asterisk == <<42>>
PlusSign == <<43>>
Digit0 == <<48>>
Digit9 == <<57>>

\* the FieldInfo variants; a variant's absent fields hold fixed fillers
FieldInfoValue ==
    [kind |-> "Value", indirection_count |-> 0, len |-> 0, dimensions_len |-> <<>>]
FieldInfoValueArray(len, dimensions_len) ==
    [kind |-> "ValueArray", indirection_count |-> 0, len |-> len,
     dimensions_len |-> dimensions_len]
FieldInfoPointer(indirection_count) ==
    [kind |-> "Pointer", indirection_count |-> indirection_count, len |-> 0,
     dimensions_len |-> <<>>]
FieldInfoPointerArray(indirection_count, len, dimensions_len) ==
    [kind |-> "PointerArray", indirection_count |-> indirection_count, len |-> len,
     dimensions_len |-> dimensions_len]
FieldInfoFnPointer ==
    [kind |-> "FnPointer", indirection_count |-> 0, len |-> 0, dimensions_len |-> <<>>]

\* index of the first c in i, or 0 when there is none
IndexOf(c, i) ==
    IF \E k \in 1..Len(i) : i[k] = c[1]
    THEN CHOOSE k \in 1..Len(i) : i[k] = c[1] /\ \A j \in 1..(k - 1) : i[j] # c[1]
    ELSE 0

\* nom::bytes::complete::take_until: up to c, which stays in the input
take_until(c, i) ==
    IF IndexOf(c, i) = 0 THEN Error(from_error_kind)
    ELSE Ok(Drop(i, IndexOf(c, i) - 1), Take(i, IndexOf(c, i) - 1))

\* nom::bytes::complete::take_till(|ch| ch == c): all of the input when c is not in it
take_till(c, i) ==
    IF IndexOf(c, i) = 0 THEN Ok(<<>>, i)
    ELSE Ok(Drop(i, IndexOf(c, i) - 1), Take(i, IndexOf(c, i) - 1))

\* delimited(tag(open), take_until(close), tag(close))
delimited(open, close, i) ==
    Bind(tag(open, i), LAMBDA o :
    Bind(take_until(close, o.rest), LAMBDA m :
    Bind(tag(close, m.rest), LAMBDA c :
    Ok(c.rest, m.val))))

\* pub fn fn_pointer
fn_pointer(i) ==
    Bind(delimited(LParenStar, RParen, i), LAMBDA n :
    Bind(delimited(LParen, RParen, n.rest), LAMBDA a :
    Ok(a.rest, [name |-> n.val, info |-> FieldInfoFnPointer])))

RECURSIVE many0_dimensions(_, _)
\* one round of many0: an Error of the element ends the repetition
many0_round(r, i, acc) ==
    IF r.kind = "Ok" THEN many0_dimensions(r.rest, Append(acc, r.val)) ELSE Ok(i, acc)

\* many0(complete(delimited(tag("["), take_until("]"), tag("]"))))
many0_dimensions(i, acc) == many0_round(delimited(LBracket, RBracket, i), i, acc)

\* str::parse::<usize>: decimal digits after an optional plus sign
StripPlus(s) == IF Len(s) > 0 /\ s[1] = PlusSign[1] THEN Tail(s) ELSE s
IsDigits(s) == Len(s) > 0 /\ \A k \in 1..Len(s) : s[k] \in Digit0[1]..Digit9[1]
RECURSIVE DecValue(_)
DecValue(s) ==
    IF Len(s) = 0 THEN 0 ELSE 10 * DecValue(Take(s, Len(s) - 1)) + (s[Len(s)] - Digit0[1])
parses_usize(s) == IsDigits(StripPlus(s))
parse_usize(s) == DecValue(StripPlus(s))

\* the loop of array_dimensions: a dimension that is no number is InvalidArraySize
parse_dimensions(r) ==
    IF \A k \in 1..Len(r.val) : parses_usize(r.val[k])
    THEN Ok(r.rest, [k \in 1..Len(r.val) |-> parse_usize(r.val[k])])
    ELSE Failure("InvalidArraySize")

\* fn array_dimensions
array_dimensions(i) == Bind(many0_dimensions(i, <<>>), LAMBDA r : parse_dimensions(r))

\* the number of dimensions in place of their product
product_is_count(s) == Len(s)

RECURSIVE product(_)
\* dimensions_len.iter().product()
product(s) == IF Len(s) = 0 THEN 1 ELSE Head(s) * product(Tail(s))

RECURSIVE LeadingAsterisks(_)
LeadingAsterisks(i) ==
    IF Len(i) > 0 /\ i[1] = Asterisk[1] THEN 1 + LeadingAsterisks(Tail(i)) ELSE 0

\* many1(tag("*")): the value kept is the number of asterisks
many1_asterisks(i) ==
    IF LeadingAsterisks(i) = 0 THEN Error(from_error_kind)
    ELSE Ok(Drop(i, LeadingAsterisks(i)), LeadingAsterisks(i))

\* the `if !input.is_empty()` of fn pointer
pointer_info(asterisks, n) ==
    IF n.rest # <<>>
    THEN Bind(array_dimensions(n.rest), LAMBDA d :
         Ok(d.rest, [name |-> n.val,
                     info |-> FieldInfoPointerArray(asterisks, product(d.val), d.val)]))
    ELSE Ok(n.rest, [name |-> n.val, info |-> FieldInfoPointer(asterisks)])

\* fn pointer
pointer(i) ==
    Bind(many1_asterisks(i), LAMBDA a :
    Bind(take_till(LBracket, a.rest), LAMBDA n :
    pointer_info(a.val, n)))

\* the `if !input.is_empty()` of fn value
value_info(n) ==
    IF n.rest # <<>>
    THEN Bind(array_dimensions(n.rest), LAMBDA d :
         Ok(d.rest, [name |-> n.val, info |-> FieldInfoValueArray(product(d.val), d.val)]))
    ELSE Ok(n.rest, [name |-> n.val, info |-> FieldInfoValue])

\* fn value
value(i) == Bind(take_till(LBracket, i), LAMBDA n : value_info(n))

\* pub fn parse_field: alt((fn_pointer, pointer, value))
parse_field(i) == alt(fn_pointer(i), alt(pointer(i), value(i)))

---------------------------------------------------------------------------
(* The SDNA the runtime is exercised on *)

\* the full names of the fields, as the NAME section holds them
Full_next == <<42, 110, 101, 120, 116>>   \* "*next"
Full_prev == <<42, 112, 114, 101, 118>>   \* "*prev"
Full_first == <<42, 102, 105, 114, 115, 116>>   \* "*first"
Full_last == <<42, 108, 97, 115, 116>>   \* "*last"
Full_lens == <<108, 101, 110, 115>>   \* "lens"
Full_flag == <<102, 108, 97, 103>>   \* "flag"
Full_loc == <<108, 111, 99, 91, 51, 93>>   \* "loc[3]"
Full_parent == <<42, 112, 97, 114, 101, 110, 116>>   \* "*parent"
Full_gh == <<42, 103, 104>>   \* "*gh"
Full_mat == <<42, 42, 109, 97, 116>>   \* "**mat"
Full_arr == <<42, 97, 114, 114, 91, 50, 93>>   \* "*arr[2]"
Full_fn == <<40, 42, 102, 110, 41, 40, 41>>   \* "(*fn)()"
Full_base == <<98, 97, 115, 101>>   \* "base"
Full_ppp == <<42, 42, 42, 112, 112, 112>>   \* "***ppp"
Full_size == <<115, 105, 122, 101>>   \* "size"

\* the names parse_field gives them, and a name no struct has
Name_next == <<110, 101, 120, 116>>
Name_prev == <<112, 114, 101, 118>>
Name_first == <<102, 105, 114, 115, 116>>
Name_last == <<108, 97, 115, 116>>
Name_lens == <<108, 101, 110, 115>>
Name_flag == <<102, 108, 97, 103>>
Name_loc == <<108, 111, 99>>
Name_parent == <<112, 97, 114, 101, 110, 116>>
Name_gh == <<103, 104>>
Name_mat == <<109, 97, 116>>
Name_arr == <<97, 114, 114>>
Name_fn == <<102, 110>>
Name_base == <<98, 97, 115, 101>>
Name_ppp == <<112, 112, 112>>
Name_size == <<115, 105, 122, 101>>
Name_nope == <<110, 111, 112, 101>>

\* the type names of the TYPE section
Type_char == <<99, 104, 97, 114>>
Type_uchar == <<117, 99, 104, 97, 114>>
Type_short == <<115, 104, 111, 114, 116>>
Type_ushort == <<117, 115, 104, 111, 114, 116>>
Type_int == <<105, 110, 116>>
Type_long == <<108, 111, 110, 103>>
Type_ulong == <<117, 108, 111, 110, 103>>
Type_float == <<102, 108, 111, 97, 116>>
Type_double == <<100, 111, 117, 98, 108, 101>>
Type_int64_t == <<105, 110, 116, 54, 52, 95, 116>>
Type_uint64_t == <<117, 105, 110, 116, 54, 52, 95, 116>>
Type_void == <<118, 111, 105, 100>>
Type_Link == <<76, 105, 110, 107>>
Type_ListBase == <<76, 105, 115, 116, 66, 97, 115, 101>>
Type_Object == <<79, 98, 106, 101, 99, 116>>
Type_GHash == <<71, 72, 97, 115, 104>>

RtNames ==
    <<Full_next, Full_prev, Full_first, Full_last, Full_lens, Full_flag, Full_loc,
      Full_parent, Full_gh, Full_mat, Full_arr, Full_fn, Full_base, Full_ppp, Full_size>>

DnaType(name, bytes_len) == [name |-> name, bytes_len |-> bytes_len]
DnaField(type_index, name_index) == [type_index |-> type_index, name_index |-> name_index]
DnaStruct(type_index, fields) == [type_index |-> type_index, fields |-> fields]

\* struct Object { float lens; int flag; float loc[3]; Object *parent; GHash *gh;
\*                 Object **mat; void *arr[2]; void (*fn)(); ListBase base;
\*                 Object ***ppp; float size; }
ObjectFields ==
    <<DnaField(7, 4), DnaField(4, 5), DnaField(7, 6), DnaField(14, 7), DnaField(15, 8),
      DnaField(14, 9), DnaField(11, 10), DnaField(11, 11), DnaField(13, 12),
      DnaField(14, 13), DnaField(7, 14)>>

\* the bytes of an Object when a pointer has p bytes and an int has int_len
ObjectLen(p, int_len) == 4 + int_len + 12 + p + p + p + 2 * p + p + 2 * p + p + 4

\* the twelve primitive types, then Link, ListBase, Object and GHash (which has no
\* struct); struct 0 is Link { Link *next; Link *prev; }, struct 1 is
\* ListBase { void *first; void *last; }, struct 2 is Object
RtDna(p, int_len) ==
    [names |-> RtNames,
     types |-> <<DnaType(Type_char, 1), DnaType(Type_uchar, 1), DnaType(Type_short, 2),
                 DnaType(Type_ushort, 2), DnaType(Type_int, int_len),
                 DnaType(Type_long, 4), DnaType(Type_ulong, 4), DnaType(Type_float, 4),
                 DnaType(Type_double, 8), DnaType(Type_int64_t, 8),
                 DnaType(Type_uint64_t, 8), DnaType(Type_void, 0),
                 DnaType(Type_Link, 2 * p), DnaType(Type_ListBase, 2 * p),
                 DnaType(Type_Object, ObjectLen(p, int_len)), DnaType(Type_GHash, 0)>>,
     structs |-> <<DnaStruct(12, <<DnaField(12, 0), DnaField(12, 1)>>),
                   DnaStruct(13, <<DnaField(11, 2), DnaField(11, 3)>>),
                   DnaStruct(14, ObjectFields)>>]

\* a block address, as the framer keeps it
RtAddress(n) == Digits64(<<n>>, "Big")

\* the bytes of an Object whose pointers all hold the address t
ObjectData(p, e, int_len, t) ==
    <<1, 2, 3, 4>> \o [k \in 1..int_len |-> 4 + k]
    \o Concat([k \in 1..3 |-> <<10 * k, 0, 0, 1>>])
    \o Concat([k \in 1..9 |-> EncUInt(t, p, e)])
    \o <<9, 8, 7, 6>>

RtHeader(p, e) ==
    [pointer_size |-> IF p = 4 THEN "Bits32" ELSE "Bits64", endianness |-> e,
     version |-> <<50, 56, 48>>]

\* "OB" at address 1 holding an Object, a DATA block at address 2 holding two
\* pointers, a GLOB block at address 3
RtBlocks(p, e, int_len, t, sdna) ==
    <<Block("Principal", <<79, 66>>, RtAddress(1), 2, ObjectData(p, e, int_len, t), 1, NoDna),
      Block("Subsidiary", <<>>, RtAddress(2), sdna, EncUInt(1, p, e) \o EncUInt(t, p, e), 2,
            NoDna),
      Block("Global", <<>>, RtAddress(3), 2, <<>>, 1, NoDna)>>

RtBlend(p, e, int_len, t, sdna) ==
    [header |-> RtHeader(p, e), blocks |-> RtBlocks(p, e, int_len, t, sdna),
     dna |-> RtDna(p, int_len)]

---------------------------------------------------------------------------
(* The runtime: src/src/runtime.rs *)

\* a call returns v, or panics (panic!, assert!, expect, unimplemented!, a slice or
\* an index out of range)
Returns(v) == [ok |-> TRUE, val |-> v]
Panic == [ok |-> FALSE, val |-> "panic"]

\* what follows a call that returned
Then(r, F(_)) == IF r.ok THEN F(r.val) ELSE Panic

FieldTemplate(name, info, type_index, type_name, data_start, data_len, is_primitive) ==
    [name |-> name, info |-> info, type_index |-> type_index, type_name |-> type_name,
     data_start |-> data_start, data_len |-> data_len, is_primitive |-> is_primitive]

\* LinkedHashMap::insert: a key the map holds already gets the new value and moves
\* to the end
insert(fields, template) ==
    SelectSeq(fields, LAMBDA f : f.name # template.name) \o <<template>>

\* `let field_bytes_len = match field_info`
field_bytes_len(info, field_dna_type, h) ==
    IF info.kind \in {"Pointer", "FnPointer"} THEN bytes_num(h.pointer_size)
    ELSE IF info.kind = "PointerArray" THEN bytes_num(h.pointer_size) * info.len
    ELSE IF info.kind = "ValueArray" THEN field_dna_type.bytes_len * info.len
    ELSE field_dna_type.bytes_len

RECURSIVE generate_fields_loop(_, _, _, _, _, _)
\* one round of the loop of generate_fields, r being parse_field(field_full_name)
generate_fields_round(fs, k, d, h, acc, data_start, r) ==
    IF r.kind # "Ok" THEN Panic
    ELSE generate_fields_loop(
            fs, k + 1, d, h,
            insert(acc, FieldTemplate(
                r.val.name, r.val.info, fs[k].type_index,
                d.types[fs[k].type_index + 1].name, data_start,
                field_bytes_len(r.val.info, d.types[fs[k].type_index + 1], h),
                fs[k].type_index < 12)),
            data_start + field_bytes_len(r.val.info, d.types[fs[k].type_index + 1], h))

\* `for field in &dna_struct.fields`
generate_fields_loop(fs, k, d, h, acc, data_start) ==
    IF k > Len(fs) THEN Returns([fields |-> acc, data_start |-> data_start])
    ELSE IF fs[k].type_index >= Len(d.types) \/ fs[k].name_index >= Len(d.names)
    THEN Panic
    ELSE generate_fields_round(fs, k, d, h, acc, data_start,
                               parse_field(d.names[fs[k].name_index + 1]))

\* fn generate_fields
generate_fields(dna_struct, dna_type, d, h) ==
    Then(generate_fields_loop(dna_struct.fields, 1, d, h, <<>>, 0), LAMBDA v :
    IF dna_type.bytes_len = v.data_start THEN Returns(v.fields) ELSE Panic)

DataBlock(k) == [format |-> "Block", block |-> k, bytes |-> <<>>]
DataRaw(bytes) == [format |-> "Raw", block |-> 0, bytes |-> bytes]
Instance(type_name, data, fields) ==
    [type_name |-> type_name, data |-> data, fields |-> fields]

\* the struct at an index of dna.structs and its type, made an Instance on `data`
instance_of_struct(b, k, data) ==
    IF k >= Len(b.dna.structs) THEN Panic
    ELSE IF b.dna.structs[k + 1].type_index >= Len(b.dna.types) THEN Panic
    ELSE Then(generate_fields(b.dna.structs[k + 1],
                              b.dna.types[b.dna.structs[k + 1].type_index + 1],
                              b.dna, b.header), LAMBDA fields :
         Returns(Instance(b.dna.types[b.dna.structs[k + 1].type_index + 1].name,
                          data, fields)))

\* InstanceDataFormat::data
instance_data(b, data) ==
    IF data.format = "Raw" THEN Returns(data.bytes)
    ELSE IF b.blocks[data.block].variant \in {"Principal", "Subsidiary", "Global"}
    THEN Returns(b.blocks[data.block].data)
    ELSE Panic

\* InstanceDataFormat::get: `&self.data()[start..start + len]`
data_get(b, data, start, len) ==
    Then(instance_data(b, data), LAMBDA bytes :
    IF start + len <= Len(bytes) THEN Returns(SubSeq(bytes, start + 1, start + len))
    ELSE Panic)

\* fn parse_ptr_address, before NonZeroU64::new: parse_u32 / parse_u64 expect their bytes
parse_ptr_address(bytes, h) ==
    IF Len(bytes) < bytes_num(h.pointer_size) THEN Panic
    ELSE Returns(Digits64(Take(bytes, bytes_num(h.pointer_size)), h.endianness))

\* the last block of the address, where the code takes the first
find_last_block(b, address) ==
    IF \E k \in 1..Len(b.blocks) :
          /\ b.blocks[k].variant \in {"Principal", "Subsidiary"}
          /\ b.blocks[k].memory_address = address
    THEN CHOOSE k \in 1..Len(b.blocks) :
          /\ b.blocks[k].variant \in {"Principal", "Subsidiary"}
          /\ b.blocks[k].memory_address = address
          /\ \A j \in (k + 1)..Len(b.blocks) :
                ~(/\ b.blocks[j].variant \in {"Principal", "Subsidiary"}
                  /\ b.blocks[j].memory_address = address)
    ELSE 0

\* `self.blend.blocks.iter().find(|b| match b { Principal | Subsidiary => .., _ => false })`:
\* the index of the block, 0 when there is none
find_block(b, address) ==
    IF \E k \in 1..Len(b.blocks) :
          /\ b.blocks[k].variant \in {"Principal", "Subsidiary"}
          /\ b.blocks[k].memory_address = address
    THEN CHOOSE k \in 1..Len(b.blocks) :
          /\ b.blocks[k].variant \in {"Principal", "Subsidiary"}
          /\ b.blocks[k].memory_address = address
          /\ \A j \in 1..(k - 1) :
                ~(/\ b.blocks[j].variant \in {"Principal", "Subsidiary"}
                  /\ b.blocks[j].memory_address = address)
    ELSE 0

\* the `match address` of get_ptr
PointerInfo(b, address) ==
    IF ~NonZeroU64(address) THEN [info |-> "Null", block |-> 0]
    ELSE IF find_block(b, address) = 0 THEN [info |-> "Invalid", block |-> 0]
    ELSE [info |-> "Block", block |-> find_block(b, address)]

\* Instance::get_ptr
get_ptr(b, self, field) ==
    IF field.info.kind # "Pointer" THEN Panic
    ELSE Then(data_get(b, self.data, field.data_start, field.data_len), LAMBDA bytes :
         Then(parse_ptr_address(bytes, b.header), LAMBDA address :
         Returns(PointerInfo(b, address))))

\* self.fields.contains_key(name), self.fields.get(name)
contains_key(self, name) == \E k \in 1..Len(self.fields) : self.fields[k].name = name
fields_get(self, name) ==
    self.fields[CHOOSE k \in 1..Len(self.fields) : self.fields[k].name = name]

\* `.structs.iter().find(|s| s.type_index == field.type_index)`: its index, -1 for None
find_struct(d, type_index) ==
    IF \E k \in 1..Len(d.structs) : d.structs[k].type_index = type_index
    THEN (CHOOSE k \in 1..Len(d.structs) :
            /\ d.structs[k].type_index = type_index
            /\ \A j \in 1..(k - 1) : d.structs[j].type_index # type_index) - 1
    ELSE -1

\* Option<Instance>
None == [some |-> FALSE, val |-> NoInst]
Some(v) == [some |-> TRUE, val |-> v]
AsSome(r) == Then(r, LAMBDA v : Returns(Some(v)))

\* the layout taken from the block alone, the field's type left unused
generate_subsidiary_fields_of_block(b, field, dna_index, data) ==
    IF dna_index >= Len(b.dna.structs) THEN Panic
    ELSE IF b.dna.structs[dna_index + 1].type_index >= 12
    THEN AsSome(instance_of_struct(b, dna_index, data))
    ELSE Returns(None)

\* fn generate_subsidiary_fields, the fields and the type made an Instance on `data`
generate_subsidiary_fields(b, field, dna_index, data) ==
    IF field.type_index >= 12
    THEN IF dna_index >= 12
         THEN AsSome(instance_of_struct(b, dna_index, data))
         ELSE IF find_struct(b.dna, field.type_index) # -1
         THEN AsSome(instance_of_struct(b, find_struct(b.dna, field.type_index), data))
         ELSE Returns(None)
    ELSE IF dna_index >= Len(b.dna.structs) THEN Panic
    ELSE IF b.dna.structs[dna_index + 1].type_index >= 12
    THEN AsSome(instance_of_struct(b, dna_index, data))
    ELSE Returns(None)

\* the `match block` of Instance::get
get_block(b, field, k) ==
    IF b.blocks[k].variant = "Principal"
    THEN IF b.blocks[k].count # 1 THEN Panic
         ELSE instance_of_struct(b, b.blocks[k].dna_index, DataBlock(k))
    ELSE IF b.blocks[k].variant = "Subsidiary"
    THEN Then(generate_subsidiary_fields(b, field, b.blocks[k].dna_index, DataBlock(k)),
              LAMBDA o : IF o.some THEN Returns(o.val) ELSE Panic)
    ELSE Panic

\* the `match field.info` of Instance::get
get_field(b, self, field) ==
    IF field.info.kind = "Value"
    THEN IF field.is_primitive THEN Panic
         ELSE IF find_struct(b.dna, field.type_index) = -1 THEN Panic
         ELSE Then(data_get(b, self.data, field.data_start, field.data_len), LAMBDA bytes :
              instance_of_struct(b, find_struct(b.dna, field.type_index), DataRaw(bytes)))
    ELSE IF field.info.kind = "Pointer" /\ field.info.indirection_count = 1
    THEN Then(get_ptr(b, self, field), LAMBDA p :
         IF p.info = "Block" THEN get_block(b, field, p.block) ELSE Panic)
    ELSE Panic

\* Instance::get (expect_field panics on a name the instance does not have)
get(b, self, name) ==
    IF contains_key(self, name) THEN get_field(b, self, fields_get(self, name)) ELSE Panic

\* the loop of is_valid over the pointers a block holds
pointers_resolve(b, data) ==
    \A i \in 0..((Len(data) \div bytes_num(b.header.pointer_size)) - 1) :
        PointerInfo(b, Digits64(SubSeq(data, i * bytes_num(b.header.pointer_size) + 1,
                                       (i + 1) * bytes_num(b.header.pointer_size)),
                                b.header.endianness)).info = "Block"

\* the `match pointer` of is_valid for a single pointer
single_pointer(p) == p.info = "Block"

\* `assert_eq!(field.data_len, size_of::<u64>())`
pointer_len(b, field) == field.data_len = 8

\* `FieldInfo::PointerArray { .. } => unimplemented!()`
pointer_array == Panic

RECURSIVE is_valid(_, _, _)
\* the `match field.info` of Instance::is_valid
is_valid_field(b, self, name, field) ==
    IF field.info.kind = "Pointer" /\ field.info.indirection_count = 1
    THEN IF ~pointer_len(b, field) THEN Panic
         ELSE Then(get_ptr(b, self, field), LAMBDA p : Returns(single_pointer(p)))
    ELSE IF field.info.kind = "Pointer" /\ field.info.indirection_count = 2
    THEN Then(get_ptr(b, self, field), LAMBDA p :
         IF p.info # "Block" THEN Returns(FALSE)
         ELSE Returns(pointers_resolve(b, b.blocks[p.block].data)))
    ELSE IF field.info.kind = "FnPointer" THEN Returns(FALSE)
    ELSE IF field.info.kind = "PointerArray" THEN pointer_array
    ELSE IF field.info.kind = "Value"
    THEN IF field.type_name = Type_ListBase
         THEN Then(get(b, self, name), LAMBDA instance :
              Then(is_valid(b, instance, Name_first), LAMBDA first :
              IF first THEN is_valid(b, instance, Name_last) ELSE Returns(FALSE)))
         ELSE Returns(TRUE)
    ELSE IF field.info.kind = "ValueArray" THEN Returns(TRUE)
    ELSE Panic

\* Instance::is_valid
is_valid(b, self, name) ==
    IF ~contains_key(self, name) THEN Returns(FALSE)
    ELSE is_valid_field(b, self, name, fields_get(self, name))

\* BlendPrimitive::blender_name
blender_name(U) ==
    IF U \in {"char", "i8", "u8"} THEN Type_char
    ELSE IF U = "u16" THEN Type_ushort
    ELSE IF U = "i16" THEN Type_short
    ELSE IF U = "i32" THEN Type_int
    ELSE IF U = "f32" THEN Type_float
    ELSE IF U = "f64" THEN Type_double
    ELSE IF U = "u64" THEN Type_uint64_t
    ELSE Type_int64_t

\* std::mem::size_of::<U>()
size_of(U) ==
    IF U \in {"i8", "u8"} THEN 1
    ELSE IF U \in {"u16", "i16"} THEN 2
    ELSE IF U \in {"i32", "f32", "char"} THEN 4
    ELSE 8

\* BlendPrimitive::parse: the value as its bytes, most significant first
parse(bytes, e) == IF e = "Little" THEN Reverse(bytes) ELSE bytes

value_of_any_type(field, U) == field.info.kind = "Value" /\ field.is_primitive

\* `FieldInfo::Value if field.is_primitive && field.type_name == blender_type_name`
value_of_type(field, U) ==
    /\ field.info.kind = "Value"
    /\ field.is_primitive
    /\ field.type_name = blender_name(U)

\* the `match field.info` of Instance::get_value
get_value_field(b, self, field, U) ==
    IF value_of_type(field, U)
    THEN IF field.data_len # size_of(U) THEN Panic
         ELSE Then(data_get(b, self.data, field.data_start, field.data_len), LAMBDA bytes :
              Returns(parse(bytes, b.header.endianness)))
    ELSE Panic

\* Instance::get_value, behind get_u8, get_i8, get_u16, get_i16, get_i32, get_f32,
\* get_f64, get_u64 and get_i64
get_value(b, self, name, U) ==
    IF contains_key(self, name) THEN get_value_field(b, self, fields_get(self, name), U)
    ELSE Panic

\* `data.chunks(size_of::<U>()).map(|s| U::parse(s, endianness)).collect()` on whole chunks
chunks(bytes, size, e) ==
    [k \in 1..(Len(bytes) \div size) |-> parse(SubSeq(bytes, (k - 1) * size + 1, k * size), e)]

\* the `match field.info` of Instance::get_value_vec
get_value_vec_field(b, self, field, U) ==
    IF field.info.kind = "ValueArray" /\ field.is_primitive
    THEN IF field.info.len = 0 THEN Panic
         ELSE IF field.data_len \div field.info.len # size_of(U) THEN Panic
         ELSE Then(data_get(b, self.data, field.data_start, field.data_len), LAMBDA bytes :
              Returns(chunks(bytes, size_of(U), b.header.endianness)))
    ELSE IF field.info.kind = "Pointer" /\ field.info.indirection_count = 1
    THEN Then(get_ptr(b, self, field), LAMBDA p :
         IF p.info # "Block" THEN Panic
         ELSE IF Len(b.blocks[p.block].data) % size_of(U) # 0 THEN Panic
         ELSE Returns(chunks(b.blocks[p.block].data, size_of(U), b.header.endianness)))
    ELSE Panic

\* Instance::get_value_vec, behind get_u8_vec ... get_i64_vec
get_value_vec(b, self, name, U) ==
    IF contains_key(self, name) THEN get_value_vec_field(b, self, fields_get(self, name), U)
    ELSE Panic

RECURSIVE root_blocks(_, _, _)
\* one round of the filter_map of get_all_root_blocks, r being the Instance of block k
root_blocks_round(b, k, acc, r) ==
    IF r.ok THEN root_blocks(b, k + 1, Append(acc, r.val)) ELSE Panic

\* the filter_map of Blend::get_all_root_blocks
root_blocks(b, k, acc) ==
    IF k > Len(b.blocks) THEN Returns(acc)
    ELSE IF b.blocks[k].variant # "Principal" THEN root_blocks(b, k + 1, acc)
    ELSE root_blocks_round(b, k, acc,
                           instance_of_struct(b, b.blocks[k].dna_index, DataBlock(k)))

\* Blend::get_all_root_blocks
get_all_root_blocks(b) == root_blocks(b, 1, <<>>)

\* one round of the filter_map of get_by_code, r being the Instance of block k
RECURSIVE by_code(_, _, _, _)
by_code_round(b, search_code, k, acc, r) ==
    IF r.ok THEN by_code(b, search_code, k + 1, Append(acc, r.val)) ELSE Panic

\* the filter_map of Blend::get_by_code: `Block::Principal { .. } if *code == search_code`
by_code(b, search_code, k, acc) ==
    IF k > Len(b.blocks) THEN Returns(acc)
    ELSE IF b.blocks[k].variant # "Principal" \/ b.blocks[k].code # search_code
    THEN by_code(b, search_code, k + 1, acc)
    ELSE IF b.blocks[k].count # 1 THEN Panic
    ELSE by_code_round(b, search_code, k, acc,
                       instance_of_struct(b, b.blocks[k].dna_index, DataBlock(k)))

\* the query without its guard `if *code == search_code`
get_by_any_code(b, search_code) == get_all_root_blocks(b)

\* Blend::get_by_code
get_by_code(b, search_code) == by_code(b, search_code, 1, <<>>)

\* the bytes through the first zero byte, the zero byte with them
take_through_zero(bytes) ==
    IF \A j \in 1..Len(bytes) : bytes[j] # 0 THEN bytes
    ELSE SubSeq(bytes, 1, CHOOSE n \in 1..Len(bytes) :
                             /\ \A j \in 1..(n - 1) : bytes[j] # 0
                             /\ bytes[n] = 0)

\* `.take_while(|c| **c != 0)`
take_while_nonzero(bytes) ==
    SubSeq(bytes, 1, CHOOSE n \in 0..Len(bytes) :
                        /\ \A j \in 1..n : bytes[j] # 0
                        /\ n = Len(bytes) \/ bytes[n + 1] = 0)

\* `*c as u8 as char`, the char as the bytes a String keeps for it (UTF-8)
as_char(c) == IF c < 128 THEN <<c>> ELSE <<192 + (c \div 64), 128 + (c % 64)>>

\* the `match field.info` of Instance::get_string; a String is the sequence of its chars
get_string_field(b, self, field) ==
    IF field.info.kind \in {"Value", "ValueArray"}
    THEN IF ~field.is_primitive \/ field.type_name # Type_char THEN Panic
         ELSE Then(data_get(b, self.data, field.data_start, field.data_len), LAMBDA bytes :
              Returns([k \in 1..Len(take_while_nonzero(bytes)) |->
                         as_char(take_while_nonzero(bytes)[k])]))
    ELSE Panic

\* Instance::get_string
get_string(b, self, name) ==
    IF contains_key(self, name) THEN get_string_field(b, self, fields_get(self, name))
    ELSE Panic

\* a call that never returns: a loop whose state comes back
Diverges == [ok |-> FALSE, val |-> "diverges"]

\* what follows a call that returned; a panic or a divergence is passed on
AndThen(r, F(_)) == IF r.ok THEN F(r.val) ELSE r

\* Instance::memory_address
instance_memory_address(b, self) ==
    IF self.data.format # "Block" THEN Panic
    ELSE IF b.blocks[self.data.block].variant \in {"Principal", "Subsidiary", "Global"}
    THEN Returns(b.blocks[self.data.block].memory_address)
    ELSE Panic

\* the ListBase arm of get_vec and of get_iter, up to the loop: last_address and cur
list_base(b, self, name) ==
    Then(get(b, self, name), LAMBDA list_instance :
    Then(get(b, list_instance, Name_last), LAMBDA last :
    Then(instance_memory_address(b, last), LAMBDA last_address :
    Then(get(b, list_instance, Name_first), LAMBDA cur :
    Returns([last_address |-> last_address, cur |-> cur])))))

RECURSIVE skip_invalid(_, _, _)
\* `cur = cur.get(cur.fields.keys().next().expect(""))`, r being the Instance got
skip_invalid_round(b, r, seen) ==
    IF ~r.ok THEN Panic
    ELSE IF r.val \in seen THEN Diverges
    ELSE skip_invalid(b, r.val, seen \cup {r.val})

\* `while !cur.is_valid("next") { .. }`, v being what is_valid returned; `seen` holds
\* the values cur had in this loop
skip_invalid_test(b, cur, seen, v) ==
    IF ~v.ok THEN Panic
    ELSE IF v.val THEN Returns(cur)
    ELSE IF Len(cur.fields) = 0 THEN Panic
    ELSE skip_invalid_round(b, get(b, cur, cur.fields[1].name), seen)

skip_invalid(b, cur, seen) == skip_invalid_test(b, cur, seen, is_valid(b, cur, Name_next))

\* `while !cur.is_valid("next") { .. } cur = cur.get("next")`
advance(b, cur) ==
    AndThen(skip_invalid(b, cur, {cur}), LAMBDA c : get(b, c, Name_next))

RECURSIVE list_loop(_, _, _, _, _)
\* the end of a round of the loop, r being the Instance `cur` becomes
list_round(b, r, last_address, instances, seen) ==
    IF ~r.ok THEN r
    ELSE IF r.val \in seen THEN Diverges
    ELSE list_loop(b, r.val, last_address, instances, seen \cup {r.val})

\* `if cur.memory_address() == last_address { break; }`, a being the address
list_test(b, cur, last_address, instances, seen, a) ==
    IF ~a.ok THEN Panic
    ELSE IF a.val = last_address THEN Returns(instances)
    ELSE list_round(b, advance(b, cur), last_address, instances, seen)

\* the `loop` of the ListBase arm of get_vec; `seen` holds the values cur had at the
\* head of the loop
list_loop(b, cur, last_address, instances, seen) ==
    list_test(b, cur, last_address, Append(instances, cur), seen,
              instance_memory_address(b, cur))

\* the loop stopping one record short
slices_short(template, data, n) ==
    [i \in 1..(n - 1) |->
       Instance(template.type_name,
                DataRaw(SubSeq(data, (i - 1) * (Len(data) \div n) + 1,
                               i * (Len(data) \div n))),
                template.fields)]

\* `for i in 0..n { data_len = data.len() / n; data_start = i * data_len; .. }`
slices(template, data, n) ==
    [i \in 1..n |->
       Instance(template.type_name,
                DataRaw(SubSeq(data, (i - 1) * (Len(data) \div n) + 1,
                               i * (Len(data) \div n))),
                template.fields)]

\* the addresses a run of pointers holds, `parse_ptr_address(&data[i * pointer_size..])`
addresses(b, data) ==
    [i \in 1..(Len(data) \div bytes_num(b.header.pointer_size)) |->
       Digits64(SubSeq(data, (i - 1) * bytes_num(b.header.pointer_size) + 1,
                       i * bytes_num(b.header.pointer_size)),
                b.header.endianness)]

\* the `match block` on an element of a run of pointers: Some(Instance), or None for
\* an element that is passed over; get_vec has `Some(_) => unimplemented!()` for a
\* Subsidiary block under Pointer{2}
pointed_instance(b, field, k, subsidiary) ==
    IF k = 0 THEN Returns(None)
    ELSE IF b.blocks[k].variant = "Principal"
    THEN AsSome(instance_of_struct(b, b.blocks[k].dna_index, DataBlock(k)))
    ELSE IF ~subsidiary THEN Panic
    ELSE generate_subsidiary_fields(b, field, b.blocks[k].dna_index, DataBlock(k))

RECURSIVE pointers_loop(_, _, _, _, _, _)
\* one round of `for i in 0..pointer_count`, o being the element's Option<Instance>
pointers_round(b, field, ps, i, acc, subsidiary, o) ==
    IF ~o.ok THEN Panic
    ELSE pointers_loop(b, field, ps, i + 1,
                       IF o.val.some THEN Append(acc, o.val.val) ELSE acc, subsidiary)

\* `for i in 0..pointer_count` of the Pointer{2} and PointerArray arms of get_vec
pointers_loop(b, field, ps, i, acc, subsidiary) ==
    IF i > Len(ps) THEN Returns(acc)
    ELSE IF ~NonZeroU64(ps[i]) THEN pointers_loop(b, field, ps, i + 1, acc, subsidiary)
    ELSE pointers_round(b, field, ps, i, acc, subsidiary,
                        pointed_instance(b, field, find_block(b, ps[i]), subsidiary))

\* the struct layout a Pointer{1} target is read with, an Instance without data
pointed_template(b, field, k) ==
    IF b.blocks[k].variant = "Principal"
    THEN instance_of_struct(b, b.blocks[k].dna_index, DataRaw(<<>>))
    ELSE Then(generate_subsidiary_fields(b, field, b.blocks[k].dna_index, DataRaw(<<>>)),
              LAMBDA o : IF o.some THEN Returns(o.val) ELSE Panic)

\* the struct layout of the elements of a ValueArray, an Instance without data
array_template(b, field) ==
    IF field.is_primitive THEN Panic
    ELSE IF find_struct(b.dna, field.type_index) = -1 THEN Panic
    ELSE instance_of_struct(b, find_struct(b.dna, field.type_index), DataRaw(<<>>))

\* the `match field.info` of Instance::get_vec
get_vec_field(b, self, name, field) ==
    IF field.info.kind = "Value"
    THEN IF field.type_name # Type_ListBase THEN Panic
         ELSE AndThen(list_base(b, self, name), LAMBDA l :
              list_loop(b, l.cur, l.last_address, <<>>, {l.cur}))
    ELSE IF field.info.kind = "ValueArray"
    THEN Then(array_template(b, field), LAMBDA template :
         Then(instance_data(b, self.data), LAMBDA data :
         Returns(slices(template, data, field.info.len))))
    ELSE IF field.info.kind = "Pointer" /\ field.info.indirection_count = 1
    THEN Then(get_ptr(b, self, field), LAMBDA p :
         IF p.info # "Block" THEN Panic
         ELSE Then(pointed_template(b, field, p.block), LAMBDA template :
              Returns(slices(template, b.blocks[p.block].data, b.blocks[p.block].count))))
    ELSE IF field.info.kind = "Pointer" /\ field.info.indirection_count = 2
    THEN Then(get_ptr(b, self, field), LAMBDA p :
         IF p.info # "Block" THEN Panic
         ELSE pointers_loop(b, field, addresses(b, b.blocks[p.block].data), 1, <<>>, FALSE))
    ELSE IF field.info.kind = "PointerArray" /\ field.info.indirection_count = 1
    THEN Then(data_get(b, self.data, field.data_start, field.data_len), LAMBDA data :
         IF field.info.len # Len(data) \div bytes_num(b.header.pointer_size) THEN Panic
         ELSE pointers_loop(b, field, addresses(b, data), 1, <<>>, TRUE))
    ELSE Panic

\* Instance::get_vec
get_vec(b, self, name) ==
    IF contains_key(self, name) THEN get_vec_field(b, self, name, fields_get(self, name))
    ELSE Panic

\* enum InstanceIterator; `template` stands for the fields and the type_name
IteratorListBase(last_address, cur, ended) ==
    [kind |-> "ListBase", last_address |-> last_address, cur |-> cur, ended |-> ended]
IteratorValueArray(template, data, len, cur_index) ==
    [kind |-> "ValueArray", template |-> template, data |-> data, len |-> len,
     cur_index |-> cur_index]
IteratorPointer1(template, data, count, cur_index) ==
    [kind |-> "Pointer1", template |-> template, data |-> data, count |-> count,
     cur_index |-> cur_index]
IteratorPointer2(pointers, field) ==
    [kind |-> "Pointer2", pointers |-> pointers, field |-> field]

\* `match self.parse_ptr_address(..) { None => continue, Some(address) => pointers.push(address) }`
nonzero_pointers(b, data) == SelectSeq(addresses(b, data), NonZeroU64)

\* the `match field.info` of Instance::get_iter
get_iter_field(b, self, name, field) ==
    IF field.info.kind = "Value"
    THEN IF field.type_name # Type_ListBase THEN Panic
         ELSE Then(list_base(b, self, name), LAMBDA l :
              Returns(IteratorListBase(l.last_address, l.cur, FALSE)))
    ELSE IF field.info.kind = "ValueArray"
    THEN Then(array_template(b, field), LAMBDA template :
         Then(instance_data(b, self.data), LAMBDA data :
         Returns(IteratorValueArray(template, data, field.info.len, 0))))
    ELSE IF field.info.kind = "Pointer" /\ field.info.indirection_count = 1
    THEN Then(get_ptr(b, self, field), LAMBDA p :
         IF p.info # "Block" THEN Panic
         ELSE Then(pointed_template(b, field, p.block), LAMBDA template :
              Returns(IteratorPointer1(template, b.blocks[p.block].data,
                                       b.blocks[p.block].count, 0))))
    ELSE IF field.info.kind = "Pointer" /\ field.info.indirection_count = 2
    THEN Then(get_ptr(b, self, field), LAMBDA p :
         IF p.info # "Block" THEN Panic
         ELSE Returns(IteratorPointer2(nonzero_pointers(b, b.blocks[p.block].data), field)))
    ELSE IF field.info.kind = "PointerArray" /\ field.info.indirection_count = 1
    THEN Then(data_get(b, self.data, field.data_start, field.data_len), LAMBDA data :
         IF field.info.len # Len(data) \div bytes_num(b.header.pointer_size) THEN Panic
         ELSE Returns(IteratorPointer2(nonzero_pointers(b, data), field)))
    ELSE Panic

\* Instance::get_iter
get_iter(b, self, name) ==
    IF contains_key(self, name) THEN get_iter_field(b, self, name, fields_get(self, name))
    ELSE Panic

\* what Iterator::next leaves and returns
Yield(it, item) == Returns([it |-> it, item |-> item])

\* the ListBase arm of next, a being ret.memory_address()
next_list_base(b, it, a) ==
    IF ~a.ok THEN Panic
    ELSE IF a.val = it.last_address
    THEN Yield([it EXCEPT !.ended = TRUE], Some(it.cur))
    ELSE AndThen(advance(b, it.cur), LAMBDA cur :
         Yield([it EXCEPT !.cur = cur], Some(it.cur)))

\* the ValueArray and Pointer1 arms of next, n being len or data.count
next_slice(it, n) ==
    IF n = 0 THEN Panic
    ELSE IF it.cur_index * (Len(it.data) \div n) = Len(it.data) THEN Yield(it, None)
    ELSE IF (it.cur_index + 1) * (Len(it.data) \div n) > Len(it.data) THEN Panic
    ELSE Yield([it EXCEPT !.cur_index = @ + 1],
               Some(Instance(it.template.type_name,
                             DataRaw(SubSeq(it.data,
                                            it.cur_index * (Len(it.data) \div n) + 1,
                                            (it.cur_index + 1) * (Len(it.data) \div n))),
                             it.template.fields)))

RECURSIVE next_pointer(_, _)
\* the `match block` of the Pointer2 arm of next, o being the element's Option<Instance>
next_pointer_round(b, it, o) ==
    IF ~o.ok THEN Panic
    ELSE IF o.val.some THEN Yield([it EXCEPT !.pointers = Tail(@)], o.val)
    ELSE next_pointer(b, [it EXCEPT !.pointers = Tail(@)])

\* `for address in pointers { .. } None`
next_pointer(b, it) ==
    IF it.pointers = <<>> THEN Yield(it, None)
    ELSE next_pointer_round(b, it,
            pointed_instance(b, it.field, find_block(b, it.pointers[1]), TRUE))

\* InstanceIterator::next
next(b, it) ==
    IF it.kind = "ListBase"
    THEN IF it.ended THEN Yield(it, None)
         ELSE next_list_base(b, it, instance_memory_address(b, it.cur))
    ELSE IF it.kind = "ValueArray" THEN next_slice(it, it.len)
    ELSE IF it.kind = "Pointer1" THEN next_slice(it, it.count)
    ELSE next_pointer(b, it)

---------------------------------------------------------------------------
(* The runtime as a state machine: a caller holding one Instance *)

RtPointerBytes == {4, 8}
RtEndianness == {"Little", "Big"}
\* the address the pointers hold: null, the OB block, the DATA block, the GLOB block,
\* no block
RtTargets == {0, 1, 2, 3, 5}

\* the files: <<pointer bytes, endianness, bytes of an int in TLEN, address the
\* pointers hold, SDNA index of the DATA block>>. An int has 4 bytes, or 2 in a file
\* that disagrees with i32; the DATA block is of struct 0 (Link), of struct 2
\* (Object) or of struct 12, which the SDNA does not have
RtShapes ==
    {<<p, e, 4, t, 0>> : p \in RtPointerBytes, e \in RtEndianness, t \in RtTargets}
    \cup {<<p, "Little", 2, 1, 0>> : p \in RtPointerBytes}
    \cup {<<p, "Little", 4, 2, s>> : p \in RtPointerBytes, s \in {2, 12}}

RtFieldNames ==
    {Name_first, Name_last, Name_lens, Name_flag, Name_loc, Name_parent, Name_gh,
     Name_mat, Name_arr, Name_fn, Name_base, Name_ppp, Name_size, Name_nope}
RtPrimitives == {"u8", "i32", "f32"}

NoGen == [magic |-> <<>>, pointer_size |-> <<>>, endianness |-> <<>>, recs |-> <<>>,
          cut |-> 0]

Call(op, self, name, U, r) == [op |-> op, self |-> self, name |-> name, prim |-> U, res |-> r]

InitRuntime ==
    /\ \E s \in RtShapes : blend = RtBlend(s[1], s[2], s[3], s[4], s[5])
    /\ inst = NoInst
    /\ call = NoCall
    /\ iter = NoIter
    /\ gen = NoGen
    /\ input = <<>>
    /\ pc = "runtime"
    /\ rest = <<>>
    /\ header = NoHeader
    /\ blocks = <<>>
    /\ res = NoResult
    /\ out = NoOut

\* the caller takes one of the root instances
GetAllRootBlocks ==
    /\ call' = Call("get_all_root_blocks", NoInst, <<>>, "none", get_all_root_blocks(blend))
    /\ IF get_all_root_blocks(blend).ok
       THEN \E k \in 1..Len(get_all_root_blocks(blend).val) :
               inst' = get_all_root_blocks(blend).val[k]
       ELSE inst' = inst
    /\ UNCHANGED <<blend, iter, framerVars>>

IsValid ==
    /\ inst # NoInst
    /\ \E name \in RtFieldNames :
         call' = Call("is_valid", inst, name, "none", is_valid(blend, inst, name))
    /\ UNCHANGED <<blend, inst, iter, framerVars>>

\* the caller goes on with the Instance it got
Get ==
    /\ inst # NoInst
    /\ \E name \in RtFieldNames :
         /\ call' = Call("get", inst, name, "none", get(blend, inst, name))
         /\ inst' = IF get(blend, inst, name).ok THEN get(blend, inst, name).val ELSE inst
    /\ UNCHANGED <<blend, iter, framerVars>>

GetValue ==
    /\ inst # NoInst
    /\ \E name \in RtFieldNames : \E U \in RtPrimitives :
         call' = Call("get_value", inst, name, U, get_value(blend, inst, name, U))
    /\ UNCHANGED <<blend, inst, iter, framerVars>>

GetValueVec ==
    /\ inst # NoInst
    /\ \E name \in RtFieldNames : \E U \in RtPrimitives :
         call' = Call("get_value_vec", inst, name, U, get_value_vec(blend, inst, name, U))
    /\ UNCHANGED <<blend, inst, iter, framerVars>>

NextRuntime == GetAllRootBlocks \/ IsValid \/ Get \/ GetValue \/ GetValueVec

SpecRuntime == InitRuntime /\ [][NextRuntime]_vars

---------------------------------------------------------------------------
(* List, string and by-code access: a Scene with a ListBase of Base elements *)

\* most items a caller takes from one iterator
MaxYield == 5

Full_pair == <<112, 97, 105, 114, 91, 50, 93>>   \* "pair[2]"
Full_id == <<105, 100, 91, 52, 93>>   \* "id[4]"
Name_pair == <<112, 97, 105, 114>>
Name_id == <<105, 100>>
Type_Base == <<66, 97, 115, 101>>
Type_Scene == <<83, 99, 101, 110, 101>>
\* the two-letter codes "SC" and "OB"
CodeSC == <<83, 67>>
CodeOB == <<79, 66>>

\* the bytes of a Scene when a pointer has p bytes
SceneLen(p) == 2 * p + p + p + 2 * p + 4 * p + 4 + 1 + p

\* the twelve primitive types, then Link, ListBase, Base, Scene and GHash (which has
\* no struct); struct 0 is Link, struct 1 is ListBase { void *first; void *last; },
\* struct 2 is Base { Base *next; Base *prev; }, struct 3 is
\* Scene { ListBase base; Base *parent; Base **mat; GHash *arr[2]; ListBase pair[2];
\*         char id[4]; char flag; GHash *gh; }
LsDna(p) ==
    [names |-> <<Full_next, Full_prev, Full_first, Full_last, Full_base, Full_parent,
                 Full_mat, Full_arr, Full_pair, Full_id, Full_flag, Full_gh>>,
     types |-> <<DnaType(Type_char, 1), DnaType(Type_uchar, 1), DnaType(Type_short, 2),
                 DnaType(Type_ushort, 2), DnaType(Type_int, 4),
                 DnaType(Type_long, 4), DnaType(Type_ulong, 4), DnaType(Type_float, 4),
                 DnaType(Type_double, 8), DnaType(Type_int64_t, 8),
                 DnaType(Type_uint64_t, 8), DnaType(Type_void, 0),
                 DnaType(Type_Link, 2 * p), DnaType(Type_ListBase, 2 * p),
                 DnaType(Type_Base, 2 * p), DnaType(Type_Scene, SceneLen(p)),
                 DnaType(Type_GHash, 0)>>,
     structs |-> <<DnaStruct(12, <<DnaField(12, 0), DnaField(12, 1)>>),
                   DnaStruct(13, <<DnaField(11, 2), DnaField(11, 3)>>),
                   DnaStruct(14, <<DnaField(14, 0), DnaField(14, 1)>>),
                   DnaStruct(15, <<DnaField(13, 4), DnaField(14, 5), DnaField(14, 6),
                                   DnaField(16, 7), DnaField(13, 8), DnaField(0, 9),
                                   DnaField(0, 10), DnaField(16, 11)>>)>>]

\* a file: pointer bytes, endianness, the addresses base.first and base.last hold,
\* the addresses the `next` of the three Base blocks hold, the address parent and gh
\* hold, the two addresses arr and the block of pointers hold, the count of the
\* block of pointers, the bytes of id, the SDNA index of the OB block
LsShape(p, e, first, last, nx, one, el, cnt, id, ob) ==
    [p |-> p, e |-> e, first |-> first, last |-> last, nx |-> nx, one |-> one,
     el |-> el, cnt |-> cnt, id |-> id, ob |-> ob]

\* the bytes of the Scene: its pointer `mat` holds the address of the block of pointers
SceneData(s) ==
    EncUInt(s.first, s.p, s.e) \o EncUInt(s.last, s.p, s.e)
    \o EncUInt(s.one, s.p, s.e) \o EncUInt(4, s.p, s.e)
    \o EncUInt(s.el[1], s.p, s.e) \o EncUInt(s.el[2], s.p, s.e)
    \o EncUInt(s.first, s.p, s.e) \o EncUInt(s.last, s.p, s.e)
    \o EncUInt(s.last, s.p, s.e) \o EncUInt(s.first, s.p, s.e)
    \o s.id \o <<65>> \o EncUInt(s.one, s.p, s.e)

\* the bytes of a Base whose `next` holds the address n
BaseData(s, n) == EncUInt(n, s.p, s.e) \o EncUInt(0, s.p, s.e)

\* "SC" at address 9 holding the Scene, three DATA blocks at addresses 1, 2 and 3
\* holding a Base each, a DATA block at address 4 holding two pointers, a GLOB block
\* at address 6, "OB" at address 7 holding a Base
LsBlocks(s) ==
    <<Block("Principal", CodeSC, RtAddress(9), 3, SceneData(s), 1, NoDna),
      Block("Subsidiary", <<>>, RtAddress(1), 2, BaseData(s, s.nx[1]), 1, NoDna),
      Block("Subsidiary", <<>>, RtAddress(2), 2, BaseData(s, s.nx[2]), 1, NoDna),
      Block("Subsidiary", <<>>, RtAddress(3), 2, BaseData(s, s.nx[3]), 1, NoDna),
      Block("Subsidiary", <<>>, RtAddress(4), 0,
            EncUInt(s.el[1], s.p, s.e) \o EncUInt(s.el[2], s.p, s.e), s.cnt, NoDna),
      Block("Global", <<>>, RtAddress(6), 3, <<>>, 1, NoDna),
      Block("Principal", CodeOB, RtAddress(7), s.ob, BaseData(s, 0), 1, NoDna)>>

LsBlend(s) == [header |-> RtHeader(s.p, s.e), blocks |-> LsBlocks(s), dna |-> LsDna(s.p)]

\* a 64-bit file with the list 1 -> 2 -> 3
LsPlain == LsShape(8, "Little", 1, 3, <<2, 3, 0>>, 1, <<1, 2>>, 2, <<65, 66, 0, 67>>, 2)

\* the lists: <<first, last, the three `next`>>: 1 -> 2 -> 3; one element; 1 -> 2 -> 1
\* with last = 3; 1 -> 2 -> null; 1 -> 2 -> no block; a null first; 1 -> 1; a list that
\* ends at the OB block; a `next` that holds the address of the GLOB block
LsChains ==
    {<<1, 3, <<2, 3, 0>>>>, <<1, 1, <<0, 0, 0>>>>, <<1, 3, <<2, 1, 0>>>>,
     <<1, 3, <<2, 0, 0>>>>, <<1, 3, <<2, 5, 0>>>>, <<0, 3, <<2, 3, 0>>>>,
     <<1, 3, <<1, 0, 0>>>>, <<1, 7, <<2, 7, 0>>>>, <<1, 3, <<2, 6, 0>>>>}

\* the addresses a single pointer holds: null, a Base, the block of pointers, no
\* block, the GLOB block, the OB block
LsTargets == {0, 1, 4, 5, 6, 7}

\* the addresses a run of two pointers holds
LsElements == {<<1, 2>>, <<0, 2>>, <<5, 1>>, <<7, 1>>, <<6, 2>>, <<0, 0>>, <<2, 7>>}

LsStrings == {<<65, 66, 0, 67>>, <<65, 66, 67, 68>>, <<0, 65, 0, 0>>, <<200, 65, 0, 0>>}

LsShapes ==
    {[LsPlain EXCEPT !.first = l[1], !.last = l[2], !.nx = l[3]] : l \in LsChains}
    \cup {[LsPlain EXCEPT !.p = 4, !.last = l] : l \in {1, 3}}
    \cup {[LsPlain EXCEPT !.one = t] : t \in LsTargets}
    \cup {[LsPlain EXCEPT !.one = 4, !.cnt = n] : n \in {0, 3}}
    \cup {[LsPlain EXCEPT !.el = l] : l \in LsElements}
    \cup {[LsPlain EXCEPT !.el = l, !.ob = 9] : l \in {<<7, 1>>, <<2, 7>>}}
    \cup {[LsPlain EXCEPT !.id = i] : i \in LsStrings}
    \cup {[LsPlain EXCEPT !.e = "Big"]}

\* the names the caller asks for: those of structs, of strings and of lists
LsStructNames == {Name_base, Name_parent, Name_gh, Name_first, Name_next, Name_nope}
LsStringNames == {Name_id, Name_flag, Name_base, Name_parent, Name_nope}
LsListNames ==
    {Name_base, Name_parent, Name_mat, Name_arr, Name_pair, Name_gh, Name_flag, Name_nope}

InitLists ==
    /\ \E s \in LsShapes : blend = LsBlend(s)
    /\ inst = NoInst
    /\ call = NoCall
    /\ iter = NoIter
    /\ gen = NoGen
    /\ input = <<>>
    /\ pc = "lists"
    /\ rest = <<>>
    /\ header = NoHeader
    /\ blocks = <<>>
    /\ res = NoResult
    /\ out = NoOut

\* the caller takes one of the root instances and lets go of its iterator
RootBlocks ==
    /\ call' = Call("get_all_root_blocks", NoInst, <<>>, "none", get_all_root_blocks(blend))
    /\ IF get_all_root_blocks(blend).ok
       THEN \E k \in 1..Len(get_all_root_blocks(blend).val) :
               inst' = get_all_root_blocks(blend).val[k]
       ELSE inst' = inst
    /\ iter' = NoIter
    /\ UNCHANGED <<blend, framerVars>>

\* the caller takes one of the root instances of a code
GetByCode ==
    /\ \E c \in {CodeSC, CodeOB, <<77, 69>>} :
         /\ call' = Call("get_by_code", NoInst, c, "none", get_by_code(blend, c))
         /\ IF get_by_code(blend, c).ok /\ get_by_code(blend, c).val # <<>>
            THEN \E k \in 1..Len(get_by_code(blend, c).val) :
                    inst' = get_by_code(blend, c).val[k]
            ELSE inst' = inst
    /\ iter' = NoIter
    /\ UNCHANGED <<blend, framerVars>>

\* the caller goes on with the Instance it got
GetField ==
    /\ inst # NoInst
    /\ \E name \in LsStructNames :
         /\ call' = Call("get", inst, name, "none", get(blend, inst, name))
         /\ inst' = IF get(blend, inst, name).ok THEN get(blend, inst, name).val ELSE inst
    /\ iter' = NoIter
    /\ UNCHANGED <<blend, framerVars>>

GetString ==
    /\ inst # NoInst
    /\ \E name \in LsStringNames :
         call' = Call("get_string", inst, name, "none", get_string(blend, inst, name))
    /\ iter' = NoIter
    /\ UNCHANGED <<blend, inst, framerVars>>

GetVec ==
    /\ inst # NoInst
    /\ \E name \in LsListNames :
         call' = Call("get_vec", inst, name, "none", get_vec(blend, inst, name))
    /\ iter' = NoIter
    /\ UNCHANGED <<blend, inst, framerVars>>

\* the iterator a caller holds: what get_iter returned, what it yielded so far, and
\* whether it is live, done (next returned None), aborted or diverged
Iterator(it, state, yielded) == [it |-> it, state |-> state, yielded |-> yielded]

GetIter ==
    /\ inst # NoInst
    /\ \E name \in LsListNames :
         /\ call' = Call("get_iter", inst, name, "none",
                         [ok |-> get_iter(blend, inst, name).ok, val |-> "iterator"])
         /\ iter' = IF get_iter(blend, inst, name).ok
                    THEN Iterator(get_iter(blend, inst, name).val, "live", <<>>)
                    ELSE NoIter
    /\ UNCHANGED <<blend, inst, framerVars>>

\* what a call of next leaves of the iterator the caller holds
AfterNext(i, r) ==
    IF ~r.ok THEN [i EXCEPT !.state = IF r = Diverges THEN "diverged" ELSE "aborted"]
    ELSE IF r.val.item.some
    THEN Iterator(r.val.it, "live", Append(i.yielded, r.val.item.val))
    ELSE Iterator(r.val.it, "done", i.yielded)

\* the caller asks the iterator for its next item
IteratorNext ==
    /\ iter.state \in {"live", "done"}
    /\ Len(iter.yielded) < MaxYield
    /\ iter' = AfterNext(iter, next(blend, iter.it))
    /\ UNCHANGED <<blend, inst, call, framerVars>>

NextLists ==
    RootBlocks \/ GetByCode \/ GetField \/ GetString \/ GetVec \/ GetIter \/ IteratorNext

SpecLists == InitLists /\ [][NextLists]_vars

---------------------------------------------------------------------------
(* What the written file says about the run (read off gen, not off the parse) *)

RECURSIVE GenRecStart(_, _)
\* offset in the file of the first byte of record k
GenRecStart(g, k) ==
    IF k = 1 THEN 12
    ELSE GenRecStart(g, k - 1) + 16 + GenPointerBytes(g) + Len(g.recs[k - 1].payload)

\* the buffer holds record k's code, size and address fields
GenAddressPresent(g, k, n) == GenRecStart(g, k) + 8 + GenPointerBytes(g) <= n
\* the buffer holds the whole header of record k
GenHeaderPresent(g, k, n) == GenRecStart(g, k) + 16 + GenPointerBytes(g) <= n
\* the buffer holds record k, payload included
GenWhollyPresent(g, k, n) ==
    GenRecStart(g, k) + 16 + GenPointerBytes(g) + Len(g.recs[k].payload) <= n

\* the framer gets to record k: the header parses and every record before k is accepted
GenMet(g, k) ==
    /\ GenWellFormed(<<g.magic, g.pointer_size, g.endianness>>)
    /\ \A j \in 1..(k - 1) : GenGood(g.recs[j], GenEndianness(g))

\* a code of the form [c1, c2, 0, 0]
GenRootCode(c) == c[3] = 0 /\ c[4] = 0
GenKnownCode(c) == c \in {REND, TEST, GLOB, DNA1, DATA, ENDB} \/ GenRootCode(c)

HasAddress(b) == b.variant \in {"Principal", "Subsidiary", "Global"}

---------------------------------------------------------------------------
(* C4 *)

\* C4 as claimed: a file holding a record with a code [c1,c2,0,0] and a count
\* other than 1 fails with UnsupportedCountOnPrincipalBlock.
C4_AsClaimed ==
    out.returned =>
        \A k \in 1..Len(gen.recs) :
            (/\ GenMet(gen, k)
             /\ GenHeaderPresent(gen, k, Len(input))
             /\ GenRootCode(gen.recs[k].code)
             /\ gen.recs[k].count # 1)
            => out.err = "UnsupportedCountOnPrincipalBlock"

\* C4 (amended): a record the framer gets to, with a code [c1,c2,0,0], a count
\* other than 1, a non-zero address and its whole payload in the buffer, makes
\* parsing fail with UnsupportedCountOnPrincipalBlock; and every Principal block
\* of a parsed RawBlend has count 1.
C4_PrincipalCount ==
    out.returned =>
        /\ \A k \in 1..Len(gen.recs) :
             (/\ GenMet(gen, k)
              /\ GenWhollyPresent(gen, k, Len(input))
              /\ GenRootCode(gen.recs[k].code)
              /\ gen.recs[k].count # 1
              /\ gen.recs[k].addr # 0)
             => (~out.ok /\ out.err = "UnsupportedCountOnPrincipalBlock")
        /\ out.ok =>
             \A k \in 1..Len(out.blend.blocks) :
                 out.blend.blocks[k].variant = "Principal"
                 => (out.blend.blocks[k].count = 1 /\ gen.recs[k].count = 1)

\* C4 witness: a root record with count 2 was rejected for its count
C4_Witness ==
    /\ out.returned
    /\ out.err = "UnsupportedCountOnPrincipalBlock"
    /\ Len(gen.recs) = 2
    /\ gen.recs[2].code = OB00
    /\ gen.recs[2].count = 2

---------------------------------------------------------------------------
(* C5 *)

\* C5 as claimed: a record with a zero address fails with InvalidMemoryAddress,
\* every addressed block of a parsed RawBlend has a non-zero address, and a DNA1
\* record is exempt: its zero address is not what parsing fails on.
C5_AsClaimed ==
    out.returned =>
        /\ \A k \in 1..Len(gen.recs) :
             (/\ GenMet(gen, k)
              /\ GenAddressPresent(gen, k, Len(input))
              /\ gen.recs[k].addr = 0)
             => IF gen.recs[k].code = DNA1
                THEN out.err # "InvalidMemoryAddress"
                ELSE out.err = "InvalidMemoryAddress"
        /\ out.ok =>
             \A k \in 1..Len(out.blend.blocks) :
                 HasAddress(out.blend.blocks[k])
                 => NonZeroU64(out.blend.blocks[k].memory_address)

\* C5 (amended): every record the framer gets to whose address field is zero,
\* a DNA1, REND or TEST record included, makes parsing fail with
\* InvalidMemoryAddress; and every Principal, Subsidiary and Global block of a
\* parsed RawBlend has a non-zero address.
C5_NonZeroAddress ==
    out.returned =>
        /\ \A k \in 1..Len(gen.recs) :
             (/\ GenMet(gen, k)
              /\ GenAddressPresent(gen, k, Len(input))
              /\ gen.recs[k].addr = 0)
             => (~out.ok /\ out.err = "InvalidMemoryAddress")
        /\ out.ok =>
             \A k \in 1..Len(out.blend.blocks) :
                 HasAddress(out.blend.blocks[k])
                 => NonZeroU64(out.blend.blocks[k].memory_address)

\* C5 witness: a DNA1 record with a zero address was rejected for its address
C5_Witness ==
    /\ out.returned
    /\ out.err = "InvalidMemoryAddress"
    /\ Len(gen.recs) = 2
    /\ gen.recs[2].code = DNA1
    /\ gen.recs[2].addr = 0

---------------------------------------------------------------------------
(* C6 *)

\* the framer reads every record and the terminator
GenFramed(g) ==
    /\ g.cut = 0
    /\ GenMet(g, Len(g.recs) + 1)

\* C6: from_data succeeds only if the last record before ENDB is a DNA1 record;
\* when the framed block list is empty or its last block is not DNA1, parsing
\* fails with NoDnaBlockFound.
C6_DnaLast ==
    out.returned =>
        /\ out.ok => (/\ Len(gen.recs) > 0
                      /\ gen.recs[Len(gen.recs)].code = DNA1
                      /\ Len(out.blend.blocks) = Len(gen.recs) - 1)
        /\ (GenFramed(gen) /\ (Len(gen.recs) = 0 \/ gen.recs[Len(gen.recs)].code # DNA1))
           => (~out.ok /\ out.err = "NoDnaBlockFound")

\* C6 witness: a file whose DNA1 record is not the last one was framed to its end
\* and rejected
C6_Witness ==
    /\ out.returned
    /\ out.err = "NoDnaBlockFound"
    /\ Len(gen.recs) = 2
    /\ gen.recs[1].code = DNA1

---------------------------------------------------------------------------
(* C7 *)

\* C7 as claimed: a buffer that ends inside the header, inside a block header,
\* inside a payload or before the terminator makes from_data return NotEnoughData.
C7_AsClaimed ==
    (/\ out.returned
     /\ gen.cut > 0
     /\ GenMet(gen, Len(gen.recs) + 1))
    => out.err = "NotEnoughData"

---------------------------------------------------------------------------
(* C8 *)

\* C8 as claimed: a record the framer gets to whose code is none of REND, TEST,
\* GLOB, DNA1, DATA, ENDB and not [c1,c2,0,0] fails with UnknownBlockCode,
\* whatever its other header fields are.
C8_AsClaimed ==
    out.returned =>
        \A k \in 1..Len(gen.recs) :
            (/\ GenMet(gen, k)
             /\ GenWhollyPresent(gen, k, Len(input))
             /\ ~GenKnownCode(gen.recs[k].code))
            => out.err = "UnknownBlockCode"

\* C8 (amended): a record the framer gets to whose code is none of REND, TEST,
\* GLOB, DNA1, DATA, ENDB and not [c1,c2,0,0] fails with UnknownBlockCode when
\* its address field is non-zero and its whole payload is in the buffer (a zero
\* address fails with InvalidMemoryAddress first).
C8_UnknownCode ==
    out.returned =>
        \A k \in 1..Len(gen.recs) :
            (/\ GenMet(gen, k)
             /\ GenWhollyPresent(gen, k, Len(input))
             /\ ~GenKnownCode(gen.recs[k].code))
            => /\ ~out.ok
               /\ out.err = IF gen.recs[k].addr = 0 THEN "InvalidMemoryAddress"
                            ELSE "UnknownBlockCode"

\* C8 witness: a record with the code "OBJ\0" was rejected for its code
C8_Witness ==
    /\ out.returned
    /\ out.err = "UnknownBlockCode"
    /\ Len(gen.recs) = 2
    /\ gen.recs[2].code = OBJ0
    /\ gen.recs[2].count = 2

---------------------------------------------------------------------------
(* C1, C2, C3: is_valid *)

\* the getter that answers to a field: get for a single pointer and for a struct
\* value (a ListBase is one), get_<T> and get_<T>_vec with T of the field's type for
\* a primitive value and a primitive array
AnswersTo(c, field) ==
    \/ /\ c.op = "get"
       /\ \/ field.info.kind = "Pointer" /\ field.info.indirection_count = 1
          \/ field.info.kind = "Value" /\ ~field.is_primitive
    \/ /\ c.op = "get_value"
       /\ field.info.kind = "Value"
       /\ field.is_primitive
       /\ field.type_name = blender_name(c.prim)
    \/ /\ c.op = "get_value_vec"
       /\ field.info.kind = "ValueArray"
       /\ field.is_primitive
       /\ field.type_name = blender_name(c.prim)

\* C1 as claimed: when is_valid(f) is true, get(f), or the typed getter of f's
\* type, returns.
C1_AsClaimed ==
    (/\ call.op \in {"get", "get_value", "get_value_vec"}
     /\ contains_key(call.self, call.name)
     /\ AnswersTo(call, fields_get(call.self, call.name))
     /\ is_valid(blend, call.self, call.name).ok
     /\ is_valid(blend, call.self, call.name).val)
    => call.res.ok

\* C2 as claimed: is_valid returns a boolean for every name and every field kind,
\* in files of either pointer size.
C2_AsClaimed == call.op = "is_valid" => call.res.ok

\* the address a pointer field holds
StoredAddress(b, self, field) ==
    parse_ptr_address(data_get(b, self.data, field.data_start, field.data_len).val,
                      b.header).val

\* C3 as claimed: for a single pointer, is_valid (when it returns) is true exactly
\* when the stored address is non-zero and is the address of some Principal,
\* Subsidiary or Global block.
C3_AsClaimed ==
    (/\ call.op = "is_valid"
     /\ contains_key(call.self, call.name)
     /\ fields_get(call.self, call.name).info.kind = "Pointer"
     /\ fields_get(call.self, call.name).info.indirection_count = 1
     /\ call.res.ok)
    => (call.res.val <=>
          /\ NonZeroU64(StoredAddress(blend, call.self, fields_get(call.self, call.name)))
          /\ \E k \in 1..Len(blend.blocks) :
                /\ HasAddress(blend.blocks[k])
                /\ blend.blocks[k].memory_address =
                     StoredAddress(blend, call.self, fields_get(call.self, call.name)))

---------------------------------------------------------------------------
(* C9, C10: the typed getters *)

\* the conditions C9 names: a primitive Value of T's SDNA name and T's size
NamedByC9(field, U) ==
    /\ field.info.kind = "Value"
    /\ field.is_primitive
    /\ field.type_name = blender_name(U)
    /\ field.data_len = size_of(U)

WithinData(b, self, field) ==
    field.data_start + field.data_len <= Len(instance_data(b, self.data).val)

\* the bytes of the field, most significant first
DecodedBytes(b, self, field) ==
    parse(SubSeq(instance_data(b, self.data).val, field.data_start + 1,
                 field.data_start + field.data_len), b.header.endianness)

C10_AsClaimed ==
    (/\ call.op = "get_value_vec"
     /\ contains_key(call.self, call.name)
     /\ fields_get(call.self, call.name).info.kind = "ValueArray"
     /\ fields_get(call.self, call.name).is_primitive
     /\ fields_get(call.self, call.name).type_name # blender_name(call.prim))
    => ~call.res.ok

---------------------------------------------------------------------------
(* C11, C12: get and get_vec through a single pointer *)

\* the field a call names is a single pointer
SinglePointer(c) ==
    /\ contains_key(c.self, c.name)
    /\ fields_get(c.self, c.name).info.kind = "Pointer"
    /\ fields_get(c.self, c.name).info.indirection_count = 1

\* the block the field of a call points to, 0 when it points to none
Target(b, c) ==
    IF get_ptr(b, c.self, fields_get(c.self, c.name)).ok
    THEN get_ptr(b, c.self, fields_get(c.self, c.name)).val.block
    ELSE 0

\* C11 as claimed: get on a Pointer{1} field returns an instance only if the stored
\* address resolves to a block and that block, Principal or Subsidiary, has
\* count = 1; with any other count get aborts.
C11_AsClaimed ==
    (call.op = "get" /\ SinglePointer(call) /\ call.res.ok)
    => /\ Target(blend, call) # 0
       /\ blend.blocks[Target(blend, call)].count = 1

---------------------------------------------------------------------------
(* C13, C14: the traversal of a ListBase *)

\* the address that the bytes of an instance hold at an offset
HeldAt(b, bytes, start) ==
    Digits64(SubSeq(bytes, start + 1, start + bytes_num(b.header.pointer_size)),
             b.header.endianness)

\* the addresses the ListBase field of a call holds in `first` and in `last`
ListFirst(b, c) ==
    HeldAt(b, instance_data(b, c.self.data).val, fields_get(c.self, c.name).data_start)
ListLast(b, c) ==
    HeldAt(b, instance_data(b, c.self.data).val,
           fields_get(c.self, c.name).data_start + bytes_num(b.header.pointer_size))

\* the block that the `next` of block k points to (`next` is the first field of Link
\* and of Base), 0 when it points to none
NextBlock(b, k) == find_block(b, HeldAt(b, b.blocks[k].data, 0))

RECURSIVE ChainTo(_, _, _, _)
\* the blocks from block k along `next` up to the first one whose address is
\* last_address; it ends with 0 when that block is not met within n blocks
ChainTo(b, k, last_address, n) ==
    IF k = 0 \/ n = 0 THEN <<0>>
    ELSE IF b.blocks[k].memory_address = last_address THEN <<k>>
    ELSE <<k>> \o ChainTo(b, NextBlock(b, k), last_address, n - 1)

\* the list a get_iter call was made on, as the blocks hold it
ListOf(b, c) == ChainTo(b, find_block(b, ListFirst(b, c)), ListLast(b, c), Len(b.blocks))

\* first and last are valid and last is met along `next` from first
ListReachesLast(b, c) ==
    /\ find_block(b, ListLast(b, c)) # 0
    /\ ListOf(b, c)[Len(ListOf(b, c))] # 0

\* the iterator the caller holds came from get_iter on a ListBase field
OverListBase == iter.state # "none" /\ iter.it.kind = "ListBase"

\* the blocks of the instances an iterator yielded
YieldedBlocks(i) == [k \in 1..Len(i.yielded) |-> i.yielded[k].data.block]

\* C13 as claimed: get_iter over a ListBase whose first and last are valid and whose
\* `next` chain leads from first to last yields the blocks of the chain in order,
\* each once, and stops after the block whose address is last's: no call of next
\* aborts, what was yielded so far is the beginning of the chain, and when next
\* has returned None the whole chain was yielded.
C13_AsClaimed ==
    (OverListBase /\ ListReachesLast(blend, call))
    => /\ iter.state \in {"live", "done"}
       /\ Len(iter.yielded) <= Len(ListOf(blend, call))
       /\ YieldedBlocks(iter) = SubSeq(ListOf(blend, call), 1, Len(iter.yielded))
       /\ iter.it.ended <=> Len(iter.yielded) = Len(ListOf(blend, call))
       /\ iter.state = "done" => iter.it.ended

\* the field a call names is a ListBase whose first and last are the addresses of
\* blocks
ValidListBase(b, c) ==
    /\ contains_key(c.self, c.name)
    /\ fields_get(c.self, c.name).info.kind = "Value"
    /\ fields_get(c.self, c.name).type_name = Type_ListBase
    /\ find_block(b, ListFirst(b, c)) # 0
    /\ find_block(b, ListLast(b, c)) # 0

\* C14 as claimed: the traversal of a ListBase ends, and ends at last's address,
\* whatever the `next` chain is. get_vec returns, and the last instance it returns
\* stands on the block whose address is last's; an iterator neither aborts nor hangs
\* and never yields a block twice (the walk is a function of the current block, so
\* a walk that comes back to a block it left never ends).
C14_AsClaimed ==
    /\ (call.op = "get_vec" /\ ValidListBase(blend, call))
       => /\ call.res.ok
          /\ call.res.val # <<>>
          /\ blend.blocks[call.res.val[Len(call.res.val)].data.block].memory_address
               = ListLast(blend, call)
    /\ OverListBase
       => /\ iter.state \in {"live", "done"}
          /\ \A j, k \in 1..Len(iter.yielded) :
                YieldedBlocks(iter)[j] = YieldedBlocks(iter)[k] => j = k

---------------------------------------------------------------------------
(* C15: get_iter over a run of pointers *)

\* the field a get_iter call names is a Pointer{2} or a PointerArray{1, len}
RunOfPointers(c) ==
    /\ contains_key(c.self, c.name)
    /\ \/ /\ fields_get(c.self, c.name).info.kind = "Pointer"
          /\ fields_get(c.self, c.name).info.indirection_count = 2
       \/ /\ fields_get(c.self, c.name).info.kind = "PointerArray"
          /\ fields_get(c.self, c.name).info.indirection_count = 1

\* the addresses of the elements: those the target block holds for a Pointer{2},
\* those the field itself holds for a PointerArray
Elements(b, c) ==
    IF fields_get(c.self, c.name).info.kind = "Pointer"
    THEN addresses(b, b.blocks[Target(b, c)].data)
    ELSE addresses(b, SubSeq(instance_data(b, c.self.data).val,
                             fields_get(c.self, c.name).data_start + 1,
                             fields_get(c.self, c.name).data_start
                               + fields_get(c.self, c.name).data_len))

\* the blocks of the elements that are not null and that resolve, in element order
ResolvedElements(b, c) ==
    SelectSeq([k \in 1..Len(Elements(b, c)) |-> find_block(b, Elements(b, c)[k])],
              LAMBDA k : k # 0)

\* C15 as claimed: an iterator over a Pointer{2} or PointerArray{1, len} field never
\* aborts on an element, and by the time next returns None it has yielded one
\* instance for each element whose address is non-zero and resolves to a block, in
\* element order, and nothing else.
C15_AsClaimed ==
    (iter.state # "none" /\ iter.it.kind = "Pointer2" /\ RunOfPointers(call))
    => /\ iter.state \in {"live", "done"}
       /\ iter.state = "done" => YieldedBlocks(iter) = ResolvedElements(blend, call)

---------------------------------------------------------------------------
(* C16: the root enumeration and the by-code query *)

\* the indices of the Principal blocks, in file order
PrincipalBlocks(b) ==
    SelectSeq([k \in 1..Len(b.blocks) |-> k], LAMBDA k : b.blocks[k].variant = "Principal")

\* the blocks the instances of a returned list stand on
BlocksOf(r) == [k \in 1..Len(r.val) |-> r.val[k].data.block]

\* C16: a root enumeration that returns has exactly one instance per Principal
\* block, in file order, each of the struct the block names, and none for any other
\* block; a by-code query that returns has exactly the instances of the Principal
\* blocks of that code, in file order, which are the root instances of that code.
C16_RootInstances ==
    /\ (call.op = "get_all_root_blocks" /\ call.res.ok)
       => /\ BlocksOf(call.res) = PrincipalBlocks(blend)
          /\ \A k \in 1..Len(call.res.val) :
                /\ call.res.val[k].data.format = "Block"
                /\ call.res.val[k].type_name =
                     blend.dna.types[blend.dna.structs[
                        blend.blocks[call.res.val[k].data.block].dna_index + 1
                     ].type_index + 1].name
    /\ (call.op = "get_by_code" /\ call.res.ok)
       => /\ BlocksOf(call.res) =
               SelectSeq(PrincipalBlocks(blend), LAMBDA k : blend.blocks[k].code = call.name)
          /\ get_all_root_blocks(blend).ok
             => call.res.val =
                  SelectSeq(get_all_root_blocks(blend).val,
                            LAMBDA i : blend.blocks[i.data.block].code = call.name)

\* of the two root instances of a file, with a GLOB and DATA blocks between them,
\* the query for "OB" returned the second one alone
C16_Witness ==
    /\ call.op = "get_by_code"
    /\ call.name = CodeOB
    /\ call.res.ok
    /\ BlocksOf(call.res) = <<7>>
    /\ get_all_root_blocks(blend).ok
    /\ BlocksOf(get_all_root_blocks(blend)) = <<1, 7>>
    /\ blend.blocks[6].variant = "Global"

---------------------------------------------------------------------------
(* C17: get_string *)

\* the field of the call is a primitive char value or value array
CharField(c) ==
    /\ contains_key(c.self, c.name)
    /\ fields_get(c.self, c.name).info.kind \in {"Value", "ValueArray"}
    /\ fields_get(c.self, c.name).is_primitive
    /\ fields_get(c.self, c.name).type_name = Type_char

\* the data_len bytes of the field of the call, from data_start
FieldBytes(b, c) ==
    data_get(b, c.self.data, fields_get(c.self, c.name).data_start,
             fields_get(c.self, c.name).data_len)

\* how many bytes stand before the first zero byte (all of them when there is none)
BeforeZero(bytes) ==
    IF \E j \in 1..Len(bytes) : bytes[j] = 0
    THEN (CHOOSE j \in 1..Len(bytes) : bytes[j] = 0 /\ \A i \in 1..(j - 1) : bytes[i] # 0) - 1
    ELSE Len(bytes)

\* the code point of a char of a String
CodePoint(ch) == IF Len(ch) = 1 THEN ch[1] ELSE (ch[1] - 192) * 64 + (ch[2] - 128)

\* C17: on a primitive char value or value array whose bytes the instance holds,
\* get_string returns one char per byte standing before the first zero byte of the
\* field (per byte of the field when it has no zero byte), in order, the char of
\* that byte's value; on any other field it aborts.
C17_GetString ==
    call.op = "get_string"
    => IF CharField(call)
       THEN FieldBytes(blend, call).ok
            => /\ call.res.ok
               /\ Len(call.res.val) = BeforeZero(FieldBytes(blend, call).val)
               /\ \A k \in 1..Len(call.res.val) :
                     /\ Len(call.res.val[k]) \in {1, 2}
                     /\ CodePoint(call.res.val[k]) = FieldBytes(blend, call).val[k]
       ELSE ~call.res.ok

\* the four bytes 200, 65, 0, 0 of `char id[4]` were returned as the two chars
\* U+00C8 and 'A'
C17_Witness ==
    /\ call.op = "get_string"
    /\ call.name = Name_id
    /\ CharField(call)
    /\ FieldBytes(blend, call).ok
    /\ FieldBytes(blend, call).val = <<200, 65, 0, 0>>
    /\ call.res.ok
    /\ call.res.val = << <<195, 136>>, <<65>> >>

---------------------------------------------------------------------------
(* Field templates: generate_fields on the structs an SDNA may declare *)

\* most fields of a struct
MaxFields == 3

\* the names "flag", "size", "*next" and "loc[3]"
TplNames == <<Full_flag, Full_size, Full_next, Full_loc>>

\* a field is of type char (0) or int (4) and has one of the four names
TplFields == {DnaField(t, n) : t \in {0, 4}, n \in 0..3}
TplStructs == UNION {[1..n -> TplFields] : n \in 0..MaxFields}
\* the bytes_len the SDNA gives the struct
TplLens == {0, 4, 8, 12}

\* an SDNA of one struct, Link, of type 12, with these fields and this bytes_len
TplDna(fs, len) ==
    [names |-> TplNames,
     types |-> <<DnaType(Type_char, 1), DnaType(Type_uchar, 1), DnaType(Type_short, 2),
                 DnaType(Type_ushort, 2), DnaType(Type_int, 4),
                 DnaType(Type_long, 4), DnaType(Type_ulong, 4), DnaType(Type_float, 4),
                 DnaType(Type_double, 8), DnaType(Type_int64_t, 8),
                 DnaType(Type_uint64_t, 8), DnaType(Type_void, 0),
                 DnaType(Type_Link, len)>>,
     structs |-> <<DnaStruct(12, fs)>>]

InitTemplates ==
    /\ \E p \in RtPointerBytes, fs \in TplStructs, len \in TplLens :
         blend = [header |-> RtHeader(p, "Little"), blocks |-> <<>>, dna |-> TplDna(fs, len)]
    /\ inst = NoInst
    /\ call = NoCall
    /\ iter = NoIter
    /\ gen = NoGen
    /\ input = <<>>
    /\ pc = "templates"
    /\ rest = <<>>
    /\ header = NoHeader
    /\ blocks = <<>>
    /\ res = NoResult
    /\ out = NoOut

\* the templates of the struct are generated, as every instance of it needs them
GenerateFields ==
    /\ pc = "templates"
    /\ call = NoCall
    /\ call' = Call("generate_fields", NoInst, <<>>, "none",
                    generate_fields(blend.dna.structs[1],
                                    blend.dna.types[blend.dna.structs[1].type_index + 1],
                                    blend.dna, blend.header))
    /\ UNCHANGED <<blend, inst, iter, framerVars>>

NextTemplates == GenerateFields

SpecTemplates == InitTemplates /\ [][NextTemplates]_vars

---------------------------------------------------------------------------
(* C18: the templates of a struct and its bytes_len *)

RECURSIVE SumDataLen(_)
\* the sum of data_len over the entries of a template map
SumDataLen(fields) ==
    IF fields = <<>> THEN 0 ELSE Head(fields).data_len + SumDataLen(Tail(fields))

\* the bytes_len of the struct whose templates were generated
StructLen(b) == b.dna.types[b.dna.structs[1].type_index + 1].bytes_len

\* the data_start the loop of generate_fields ends with
TerminalStart(b) ==
    generate_fields_loop(b.dna.structs[1].fields, 1, b.dna, b.header, <<>>, 0)

\* C18 as claimed: the data_len of the entries of a template map generate_fields
\* returned add up to the bytes_len of the struct, and generate_fields aborts when
\* the data_start its loop ends with is not the bytes_len.
C18_AsClaimed ==
    call.op = "generate_fields"
    => /\ call.res.ok => SumDataLen(call.res.val) = StructLen(blend)
       /\ (TerminalStart(blend).ok /\ TerminalStart(blend).val.data_start # StructLen(blend))
          => ~call.res.ok

---------------------------------------------------------------------------
(* C20: the SDNA and the block list *)

\* C20 as claimed: the block list of a RawBlend that from_data returned holds no
\* Block::Dna.
C20_AsClaimed ==
    (out.returned /\ out.ok)
    => \A k \in 1..Len(out.blend.blocks) : out.blend.blocks[k].variant # "Dna"

---------------------------------------------------------------------------
(* C19: the block list and the block region of the input *)

\* the four bytes of the code a block was made from
CodeOfBlock(b) ==
    CASE b.variant = "Rend" -> REND
      [] b.variant = "Test" -> TEST
      [] b.variant = "Global" -> GLOB
      [] b.variant = "Subsidiary" -> DATA
      [] b.variant = "Dna" -> DNA1
      [] OTHER -> b.code \o <<0, 0>>

\* a block address in the pointer bytes of the file; zeros for a variant that holds
\* no address
EncAddress(a, p, e) ==
    IF a = <<>> THEN [k \in 1..p |-> 0]
    ELSE IF e = "Little" THEN Reverse(SubSeq(a, 9 - p, 8))
    ELSE SubSeq(a, 9 - p, 8)

\* a block written as a record: its code, size, address, SDNA index, count, payload
Reserialise(b, h) ==
    CodeOfBlock(b) \o EncUInt(Len(b.data), 4, h.endianness)
    \o EncAddress(b.memory_address, bytes_num(h.pointer_size), h.endianness)
    \o EncUInt(b.dna_index, 4, h.endianness) \o EncUInt(b.count, 4, h.endianness)
    \o b.data

\* the bytes of record k in the input
RecordBytes(k) == SubSeq(input, GenRecStart(gen, k) + 1, GenRecStart(gen, k + 1))

\* the records a file of this header may hold, as they are written
WrittenRecords(h) ==
    {WriteRecord(r, bytes_num(h.pointer_size), h.endianness) :
        r \in GenRecords(h.endianness) \cup GenPrefix(h.endianness)}

\* no written record but the one at k in the input gives the block b
OnlyFrom(b, h, k) ==
    \A w \in WrittenRecords(h) :
        (block(h, w).kind = "Ok" /\ block(h, w).val = b) => w = RecordBytes(k)

Kept(b) == b.variant \in {"Principal", "Subsidiary", "Global"}

\* C19 as claimed: in the block list of a RawBlend that from_data returned, block k
\* re-serialised is record k of the input, and no other record gives that block.
C19_AsClaimed ==
    (out.returned /\ out.ok)
    => \A k \in 1..Len(out.blend.blocks) :
          /\ Reserialise(out.blend.blocks[k], out.blend.header) = RecordBytes(k)
          /\ OnlyFrom(out.blend.blocks[k], out.blend.header, k)

\* C19 amended: in the block list of a RawBlend that from_data returned, block k has
\* the code of record k of the input; when it is a Principal, Subsidiary or Global
\* block, block k re-serialised is record k of the input and no other record gives
\* that block.
C19_KeptRecords ==
    (out.returned /\ out.ok)
    => /\ Len(out.blend.blocks) < Len(gen.recs)
       /\ \A k \in 1..Len(out.blend.blocks) :
             /\ CodeOfBlock(out.blend.blocks[k]) = gen.recs[k].code
             /\ Kept(out.blend.blocks[k])
                => /\ Reserialise(out.blend.blocks[k], out.blend.header) = RecordBytes(k)
                   /\ OnlyFrom(out.blend.blocks[k], out.blend.header, k)

\* a DATA record of two bytes and count 2 came back as a Subsidiary block, in a
\* big-endian file of 4-byte pointers
C19_Witness ==
    /\ out.returned
    /\ out.ok
    /\ out.blend.header.endianness = "Big"
    /\ out.blend.header.pointer_size = "Bits32"
    /\ Len(out.blend.blocks) = 1
    /\ out.blend.blocks[1].variant = "Subsidiary"
    /\ out.blend.blocks[1].count = 2
    /\ out.blend.blocks[1].data = <<7, 7>>
    /\ RecordBytes(1) = DATA \o <<0, 0, 0, 2>> \o <<0, 0, 0, 1>> \o <<0, 0, 0, 0>>
                        \o <<0, 0, 0, 2>> \o <<7, 7>>

---------------------------------------------------------------------------
(* Type resolution: a single pointer followed into a block, on an SDNA of
   thirteen structs *)

\* the primitive threshold of generate_subsidiary_fields
P == 12

\* struct 0 is Link { Link *next; Link *prev; }, struct 1 is
\* Base { Base *next; Base *prev; }, struct 2 is
\* Scene { Base *parent; GHash *gh; void *first; void *last; }, struct 3 is declared
\* of the primitive type int, structs 4 to 11 are of type Link again and struct 12 is
\* Object { void *first; }; GHash has no struct
RsDna(p) ==
    [names |-> RtNames,
     types |-> <<DnaType(Type_char, 1), DnaType(Type_uchar, 1), DnaType(Type_short, 2),
                 DnaType(Type_ushort, 2), DnaType(Type_int, 4),
                 DnaType(Type_long, 4), DnaType(Type_ulong, 4), DnaType(Type_float, 4),
                 DnaType(Type_double, 8), DnaType(Type_int64_t, 8),
                 DnaType(Type_uint64_t, 8), DnaType(Type_void, 0),
                 DnaType(Type_Link, 2 * p), DnaType(Type_Base, 2 * p),
                 DnaType(Type_GHash, 0), DnaType(Type_Object, p),
                 DnaType(Type_Scene, 4 * p)>>,
     structs |-> <<DnaStruct(12, <<DnaField(12, 0), DnaField(12, 1)>>),
                   DnaStruct(13, <<DnaField(13, 0), DnaField(13, 1)>>),
                   DnaStruct(16, <<DnaField(13, 7), DnaField(14, 8), DnaField(11, 2),
                                   DnaField(11, 3)>>),
                   DnaStruct(4, <<>>)>>
                 \o [k \in 1..8 |-> DnaStruct(12, <<DnaField(12, 0), DnaField(12, 1)>>)]
                 \o <<DnaStruct(15, <<DnaField(11, 2)>>)>>]

\* "SC" at address 1 holding a Scene whose four pointers hold the address 2, the
\* pointed block at address 2, of variant v and SDNA index d, a GLOB block
RsBlocks(p, e, v, d) ==
    <<Block("Principal", CodeSC, RtAddress(1), 2,
            Concat([k \in 1..4 |-> EncUInt(2, p, e)]), 1, NoDna),
      Block(v, IF v = "Principal" THEN CodeOB ELSE <<>>, RtAddress(2), d,
            [k \in 1..(2 * p) |-> 0], 1, NoDna),
      Block("Global", <<>>, RtAddress(3), 2, <<>>, 1, NoDna)>>

\* the SDNA index of the pointed block: Link, Base, the struct of type int, Object,
\* and an index the SDNA does not have
RsIndices == {0, 1, 3, 12, 13}

InitResolve ==
    /\ \E p \in RtPointerBytes, e \in RtEndianness,
          v \in {"Principal", "Subsidiary"}, d \in RsIndices :
         blend = [header |-> RtHeader(p, e), blocks |-> RsBlocks(p, e, v, d),
                  dna |-> RsDna(p)]
    /\ inst = NoInst
    /\ call = NoCall
    /\ iter = NoIter
    /\ gen = NoGen
    /\ input = <<>>
    /\ pc = "resolve"
    /\ rest = <<>>
    /\ header = NoHeader
    /\ blocks = <<>>
    /\ res = NoResult
    /\ out = NoOut

NextResolve == GetAllRootBlocks \/ Get \/ IsValid

SpecResolve == InitResolve /\ [][NextResolve]_vars

---------------------------------------------------------------------------
(* C21: the struct layout of a pointed block *)

\* a returned get followed the single pointer of the call into a block
Followed(c) == c.op = "get" /\ SinglePointer(c) /\ Target(blend, c) # 0

\* the type_index of the field of the call, the pointed block, its SDNA index
FieldType(c) == fields_get(c.self, c.name).type_index
Pointed(c) == blend.blocks[Target(blend, c)]

\* the instance of struct s on the pointed block
LayoutOf(c, s) ==
    instance_of_struct(blend, s, DataBlock(Target(blend, c)))

\* the call returned the pointed block with the layout of struct s
Chose(c, s) == c.res.ok /\ LayoutOf(c, s).ok /\ c.res.val = LayoutOf(c, s).val

\* the rows of the table on which a struct is chosen, as claimed
Row123(c) ==
    /\ (Pointed(c).variant = "Principal" /\ c.res.ok)
       => Chose(c, Pointed(c).dna_index)
    /\ (Pointed(c).variant = "Subsidiary" /\ FieldType(c) >= P
        /\ Pointed(c).dna_index >= P /\ c.res.ok)
       => Chose(c, Pointed(c).dna_index)
    /\ (Pointed(c).variant = "Subsidiary" /\ FieldType(c) >= P /\ Pointed(c).dna_index < P)
       => IF find_struct(blend.dna, FieldType(c)) = -1 THEN ~c.res.ok
          ELSE c.res.ok => Chose(c, find_struct(blend.dna, FieldType(c)))

---------------------------------------------------------------------------
(* C22: the entries of a template map *)

\* the declared fields of the struct whose templates were generated
Declared(b) == b.dna.structs[1].fields

\* the name and kind parse_field gives declared field i
ParsedField(b, i) == parse_field(b.dna.names[Declared(b)[i].name_index + 1]).val

\* the data_len of declared field i: pointer bytes for a pointer or a function
\* pointer, pointer bytes times len for a pointer array, the type's bytes_len times
\* len for a value array, the type's bytes_len for a value
DeclaredLen(b, i) ==
    CASE ParsedField(b, i).info.kind \in {"Pointer", "FnPointer"} ->
           bytes_num(b.header.pointer_size)
      [] ParsedField(b, i).info.kind = "PointerArray" ->
           bytes_num(b.header.pointer_size) * ParsedField(b, i).info.len
      [] ParsedField(b, i).info.kind = "ValueArray" ->
           b.dna.types[Declared(b)[i].type_index + 1].bytes_len * ParsedField(b, i).info.len
      [] OTHER -> b.dna.types[Declared(b)[i].type_index + 1].bytes_len

RECURSIVE DeclaredStart(_, _)
\* the sum of the data_len of the declared fields before field i
DeclaredStart(b, i) ==
    IF i = 1 THEN 0 ELSE DeclaredStart(b, i - 1) + DeclaredLen(b, i - 1)

\* C22 as claimed: a template map generate_fields returned has one entry per
\* declared field, in declaration order; entry i has the clean name of declared
\* field i, the data_len of its kind, and the data_len of the declared fields before
\* it as data_start.
C22_AsClaimed ==
    (call.op = "generate_fields" /\ call.res.ok)
    => /\ Len(call.res.val) = Len(Declared(blend))
       /\ \A i \in 1..Len(call.res.val) :
             i <= Len(Declared(blend))
             => /\ call.res.val[i].name = ParsedField(blend, i).name
                /\ call.res.val[i].data_len = DeclaredLen(blend, i)
                /\ call.res.val[i].data_start = DeclaredStart(blend, i)

---------------------------------------------------------------------------
(* C23: the endianness of a block record's fields *)

RECURSIVE LeNumber(_)
\* the number bytes denote, least significant byte first
LeNumber(bytes) == IF bytes = <<>> THEN 0 ELSE Head(bytes) + 256 * LeNumber(Tail(bytes))

\* the number bytes denote in endianness e
Number(bytes, e) == IF e = "Little" THEN LeNumber(bytes) ELSE LeNumber(Reverse(bytes))

\* the payload size the record at the head of r announces
SizeIn(r, h) == Number(SubSeq(r, 5, 8), h.endianness)

\* the framer went from r to r2 over one record and made the block b of it
Decoded(r, r2, b, h) ==
    /\ r2 = Drop(r, 16 + bytes_num(h.pointer_size) + SizeIn(r, h))
    /\ Len(r) - Len(r2) = 16 + bytes_num(h.pointer_size) + SizeIn(r, h)
    /\ Kept(b)
       => /\ Len(b.memory_address) = 8
          /\ Number(b.memory_address, "Big")
               = Number(SubSeq(r, 9, 8 + bytes_num(h.pointer_size)), h.endianness)
          /\ b.dna_index = Number(SubSeq(r, 9 + bytes_num(h.pointer_size),
                                         12 + bytes_num(h.pointer_size)), h.endianness)
          /\ b.count = Number(SubSeq(r, 13 + bytes_num(h.pointer_size),
                                     16 + bytes_num(h.pointer_size)), h.endianness)
          /\ b.data = SubSeq(r, 17 + bytes_num(h.pointer_size),
                             16 + bytes_num(h.pointer_size) + SizeIn(r, h))

\* a DATA record whose size bytes are 00 00 00 10, with sixteen bytes of payload
SixteenRecord(h) ==
    DATA \o <<0, 0, 0, 16>> \o [k \in 1..bytes_num(h.pointer_size) |-> 1]
    \o <<0, 0, 0, 0>> \o <<0, 0, 0, 0>> \o [k \in 1..16 |-> k]

\* with "V" the size bytes 00 00 00 10 are 16 and the record is taken whole; with
\* "v" they are 0x10000000, more than the input holds
Sixteen(h) ==
    IF h.endianness = "Big"
    THEN /\ block(h, SixteenRecord(h)).kind = "Ok"
         /\ block(h, SixteenRecord(h)).rest = <<>>
         /\ block(h, SixteenRecord(h)).val.data = [k \in 1..16 |-> k]
    ELSE /\ SizeIn(SixteenRecord(h), h) = 268435456
         /\ block(h, SixteenRecord(h)).kind = "Error"

\* C23: a step on which the framer adds a block to its list consumes the
\* 16 + P + size bytes of one record, size, address (zero-extended to 64 bits), SDNA
\* index and count being the numbers their bytes denote in the endianness of the
\* header; the size bytes 00 00 00 10 are 16 under "V" and 0x10000000 under "v".
C23_Endianness ==
    [][(pc = "blocks" /\ Len(blocks') = Len(blocks) + 1)
       => /\ Decoded(rest, rest', blocks'[Len(blocks')], header)
          /\ Sixteen(header)]_vars

\* a little-endian file of 8-byte pointers: the DATA record of size 02 00 00 00,
\* address 01 00 .. 00 and count 02 00 00 00 became a block of two bytes, count 2
C23_Witness ==
    /\ pc = "blocks"
    /\ header.endianness = "Little"
    /\ header.pointer_size = "Bits64"
    /\ Len(blocks) = 1
    /\ Len(input) >= 38
    /\ SubSeq(input, 13, 38) = DATA \o <<2, 0, 0, 0>> \o <<1, 0, 0, 0, 0, 0, 0, 0>>
                               \o <<0, 0, 0, 0>> \o <<2, 0, 0, 0>> \o <<7, 7>>
    /\ blocks[1].variant = "Subsidiary"
    /\ blocks[1].count = 2
    /\ blocks[1].data = <<7, 7>>
    /\ blocks[1].memory_address = <<0, 0, 0, 0, 0, 0, 0, 1>>
    /\ Len(rest) = Len(input) - 12 - 26

---------------------------------------------------------------------------
(* Field names: parse_field on the names an SDNA may hold *)

\* most asterisks and most array dimensions of a written name
MaxStars == 3
MaxDims == 2

LowerX == <<120>>
MinusSign == <<45>>

\* the clean names "uv", "a" and "n_1", and the array sizes
FdBases == {<<117, 118>>, <<97>>, <<110, 95, 49>>}
FdSizes == {0, 2, 12}
FdDims == UNION {[1..n -> FdSizes] : n \in 0..MaxDims}

RECURSIVE DecDigits(_)
\* a number written in decimal
DecDigits(n) ==
    IF n < 10 THEN <<Digit0[1] + n>>
    ELSE DecDigits(n \div 10) \o <<Digit0[1] + (n % 10)>>

\* the suffix [N1][N2]...[Nm]
WriteDims(dims) ==
    Concat([k \in 1..Len(dims) |-> LBracket \o DecDigits(dims[k]) \o RBracket])

\* what spoils a name: an unclosed bracket, an empty size, a size that is no number
\* (a letter, a negative number), characters after the last bracket
FdFlaws == {"unclosed", "empty", "letter", "negative", "trailing"}
WriteFlaw(f) ==
    CASE f = "unclosed" -> LBracket \o DecDigits(2)
      [] f = "empty" -> LBracket \o RBracket
      [] f = "letter" -> LBracket \o LowerX \o RBracket
      [] f = "negative" -> LBracket \o MinusSign \o DecDigits(1) \o RBracket
      [] f = "trailing" -> LowerX
      [] OTHER -> <<>>

\* a written name: a declarator of `stars` asterisks, a clean name and dimensions,
\* or the function pointer (*name)(), with a flaw appended or none
FdName(form, stars, base, dims, flaw) ==
    [form |-> form, stars |-> stars, base |-> base, dims |-> dims, flaw |-> flaw]

WriteName(g) ==
    IF g.form = "fn" THEN LParenStar \o g.base \o RParen \o LParen \o RParen
    ELSE [k \in 1..g.stars |-> Asterisk[1]] \o g.base \o WriteDims(g.dims)
         \o WriteFlaw(g.flaw)

InitFields ==
    /\ \E form \in {"declarator", "fn"}, stars \in 0..MaxStars, base \in FdBases,
          dims \in FdDims, flaw \in FdFlaws \cup {"none"} :
         /\ form = "fn" => (stars = 0 /\ dims = <<>> /\ flaw = "none")
         /\ flaw = "trailing" => dims # <<>>
         /\ flaw # "none" => (stars <= 1 /\ Len(dims) <= 1)
         /\ gen = FdName(form, stars, base, dims, flaw)
         /\ input = WriteName(FdName(form, stars, base, dims, flaw))
    /\ pc = "field"
    /\ rest = <<>>
    /\ header = NoHeader
    /\ blocks = <<>>
    /\ res = NoResult
    /\ out = NoOut
    /\ blend = NoBlend
    /\ inst = NoInst
    /\ call = NoCall
    /\ iter = NoIter

\* generate_fields parses the full name of a declared field
ParseField ==
    /\ pc = "field"
    /\ res' = parse_field(input)
    /\ pc' = "parsed"
    /\ UNCHANGED <<gen, input, rest, header, blocks, out, runtimeVars>>

NextFields == ParseField

SpecFields == InitFields /\ [][NextFields]_vars

---------------------------------------------------------------------------
(* C24: parse_field on a well-formed name *)

RECURSIVE DimsLen(_, _)
\* N1 * ... * Nk
DimsLen(dims, k) == IF k = 0 THEN 1 ELSE DimsLen(dims, k - 1) * dims[k]

\* the FieldInfo of a well-formed written name
InfoOf(g) ==
    IF g.form = "fn" THEN FieldInfoFnPointer
    ELSE IF g.dims # <<>>
    THEN IF g.stars = 0 THEN FieldInfoValueArray(DimsLen(g.dims, Len(g.dims)), g.dims)
         ELSE FieldInfoPointerArray(g.stars, DimsLen(g.dims, Len(g.dims)), g.dims)
    ELSE IF g.stars >= 1 THEN FieldInfoPointer(g.stars)
    ELSE FieldInfoValue

Punctuation == {Asterisk[1], LBracket[1], RBracket[1], LParen[1], RParen[1]}

\* C24: parse_field takes a well-formed name whole and gives its clean name, which
\* has no asterisk, bracket or parenthesis, with Pointer{k} for k >= 1 asterisks and
\* no suffix, ValueArray or PointerArray with the dimensions and their product for a
\* suffix [N1]...[Nm], FnPointer for (*name)(), Value for a plain name.
C24_ParseField ==
    (pc = "parsed" /\ gen.flaw = "none")
    => /\ res.kind = "Ok"
       /\ res.rest = <<>>
       /\ res.val.name = gen.base
       /\ \A k \in 1..Len(res.val.name) : res.val.name[k] \notin Punctuation
       /\ res.val.info = InfoOf(gen)

\* "**n_1[2][12]" gave n_1 as a PointerArray of indirection 2, dimensions 2 and 12,
\* len 24
C24_Witness ==
    /\ pc = "parsed"
    /\ gen.flaw = "none"
    /\ input = <<42, 42, 110, 95, 49, 91, 50, 93, 91, 49, 50, 93>>
    /\ res.kind = "Ok"
    /\ res.val.name = <<110, 95, 49>>
    /\ res.val.info = FieldInfoPointerArray(2, 24, <<2, 12>>)

---------------------------------------------------------------------------
(* C25: parse_field on a malformed name *)

\* C25 as claimed: parse_field returns an error for a name with an unclosed
\* bracket, an empty array size, an array size that is no number, or characters
\* after the last bracket.
C25_AsClaimed ==
    (pc = "parsed" /\ gen.flaw # "none") => res.kind \in {"Error", "Failure"}

---------------------------------------------------------------------------
(* C26: get_iter and get_vec *)

\* what get_vec gives on the instance and the field the iterator was asked of
AsVec(c) == get_vec(blend, c.self, c.name)

\* s is the first items of t
IsPrefix(s, t) == Len(s) <= Len(t) /\ s = SubSeq(t, 1, Len(s))

\* C26 as claimed: on one instance and field, get_iter or a next of its iterator
\* aborts only where get_vec aborts, and an iterator that ended has yielded the
\* instances get_vec returns, in order; until then it has yielded the first of them.
C26_AsClaimed ==
    /\ (call.op = "get_iter" /\ ~call.res.ok) => ~AsVec(call).ok
    /\ (call.op = "get_iter" /\ iter.state = "aborted") => ~AsVec(call).ok
    /\ (call.op = "get_iter" /\ iter.state = "done")
       => (AsVec(call).ok /\ AsVec(call).val = iter.yielded)
    /\ (call.op = "get_iter" /\ iter.state = "live" /\ AsVec(call).ok)
       => IsPrefix(iter.yielded, AsVec(call).val)

---------------------------------------------------------------------------
(* C27: the instances the runtime hands out *)

\* every field template of the instance lies inside the bytes the instance stands on
WellFormed(b, i) ==
    /\ instance_data(b, i.data).ok
    /\ \A k \in 1..Len(i.fields) :
          i.fields[k].data_start + i.fields[k].data_len <= Len(instance_data(b, i.data).val)

\* C27 as claimed: the instance a caller holds from the root enumeration or from
\* get, the instances a get_vec, a get_all_root_blocks or a get_by_code returned and
\* the instances an iterator yielded are all well-formed.
C27_AsClaimed ==
    /\ inst # NoInst => WellFormed(blend, inst)
    /\ (call.op \in {"get_vec", "get_all_root_blocks", "get_by_code"} /\ call.res.ok)
       => \A k \in 1..Len(call.res.val) : WellFormed(blend, call.res.val[k])
    /\ \A k \in 1..Len(iter.yielded) : WellFormed(blend, iter.yielded[k])

---------------------------------------------------------------------------
(* C28: the elements of a struct array *)

\* the call is on a value array of structs
StructArray(c) ==
    /\ contains_key(c.self, c.name)
    /\ fields_get(c.self, c.name).info.kind = "ValueArray"
    /\ ~fields_get(c.self, c.name).is_primitive

\* the bytes of element i (from 1) of the array: the i-th of len equal pieces of
\* the field's own bytes
ElementBytes(b, c, i) ==
    SubSeq(instance_data(b, c.self.data).val,
           fields_get(c.self, c.name).data_start
             + (i - 1) * (fields_get(c.self, c.name).data_len
                            \div fields_get(c.self, c.name).info.len) + 1,
           fields_get(c.self, c.name).data_start
             + i * (fields_get(c.self, c.name).data_len
                      \div fields_get(c.self, c.name).info.len))

\* C28 as claimed: the i-th instance get_vec returns for a value array of structs,
\* and the i-th an iterator over it yields, stands on the i-th of the len equal
\* pieces of the field's own bytes.
C28_AsClaimed ==
    /\ (call.op = "get_vec" /\ StructArray(call) /\ call.res.ok)
       => \A i \in 1..Len(call.res.val) :
             /\ i <= fields_get(call.self, call.name).info.len
             /\ call.res.val[i].data = DataRaw(ElementBytes(blend, call, i))
    /\ (call.op = "get_iter" /\ StructArray(call))
       => \A i \in 1..Len(iter.yielded) :
             /\ i <= fields_get(call.self, call.name).info.len
             /\ iter.yielded[i].data = DataRaw(ElementBytes(blend, call, i))

---------------------------------------------------------------------------
(* Files in which several blocks carry one address *)

\* the addresses of the seven blocks of a file, in file order: as written by
\* LsBlocks, the second Base at the address of the first, the GLOB block and "OB"
\* at the address of the first Base, the GLOB block before the only other block of
\* its address, the Scene at the address of the first Base, the block of pointers
\* at the address of the first Base, the first Base at the address of the block of
\* pointers, and the three Bases at one address
AdPlaces ==
    {<<9, 1, 2, 3, 4, 6, 7>>, <<9, 1, 1, 3, 4, 6, 7>>, <<9, 1, 2, 3, 4, 1, 1>>,
     <<9, 7, 2, 3, 4, 1, 1>>, <<1, 1, 2, 3, 4, 6, 7>>, <<9, 1, 2, 3, 1, 6, 7>>,
     <<9, 4, 2, 3, 4, 6, 7>>, <<9, 2, 2, 2, 4, 6, 7>>}

\* the files: the list 1 -> 2 -> 3 with pointers to 1 and 2, and with pointers to
\* 1 and 1 and a parent at 2
AdShapes == {LsPlain, [LsPlain EXCEPT !.one = 2, !.el = <<1, 1>>, !.e = "Big"]}

\* the blocks of LsBlocks, the k-th at the address a[k]
AdBlocks(s, a) ==
    [k \in 1..Len(LsBlocks(s)) |->
       [LsBlocks(s)[k] EXCEPT !.memory_address = RtAddress(a[k])]]

AdBlend(s, a) == [LsBlend(s) EXCEPT !.blocks = AdBlocks(s, a)]

InitAddresses ==
    /\ \E s \in AdShapes : \E a \in AdPlaces : blend = AdBlend(s, a)
    /\ inst = NoInst
    /\ call = NoCall
    /\ iter = NoIter
    /\ gen = NoGen
    /\ input = <<>>
    /\ pc = "addresses"
    /\ rest = <<>>
    /\ header = NoHeader
    /\ blocks = <<>>
    /\ res = NoResult
    /\ out = NoOut

\* the caller asks is_valid and get_<T>_vec while it holds no iterator
NextAddresses ==
    \/ RootBlocks \/ GetField \/ GetVec \/ GetIter \/ IteratorNext
    \/ (iter = NoIter /\ IsValid)
    \/ (iter = NoIter /\ GetValueVec)

SpecAddresses == InitAddresses /\ [][NextAddresses]_vars

\* the blocks of the file an address can stand for
Resolvable(b, a) ==
    {k \in 1..Len(b.blocks) :
       /\ b.blocks[k].variant \in {"Principal", "Subsidiary"}
       /\ b.blocks[k].memory_address = a}

\* the first of them in file order, 0 when there is none
FirstAt(b, a) ==
    IF Resolvable(b, a) = {} THEN 0
    ELSE CHOOSE k \in Resolvable(b, a) : \A j \in Resolvable(b, a) : k <= j

\* an address is that of more than one block of the file
Shared(b, a) == Cardinality({k \in 1..Len(b.blocks) : b.blocks[k].memory_address = a}) > 1

\* the call is on a field of the given kind and indirection
OnKind(c, kind, n) ==
    /\ c.self # NoInst
    /\ contains_key(c.self, c.name)
    /\ fields_get(c.self, c.name).info.kind = kind
    /\ fields_get(c.self, c.name).info.indirection_count = n

\* the bytes of the field of a call, <<>> when they cannot be read
Bytes29(c) ==
    IF data_get(blend, c.self.data, fields_get(c.self, c.name).data_start,
                fields_get(c.self, c.name).data_len).ok
    THEN data_get(blend, c.self.data, fields_get(c.self, c.name).data_start,
                  fields_get(c.self, c.name).data_len).val
    ELSE <<>>

\* the addresses a run of bytes holds, one per pointer
Held(bytes) ==
    [i \in 1..(Len(bytes) \div bytes_num(blend.header.pointer_size)) |->
       Digits64(SubSeq(bytes, (i - 1) * bytes_num(blend.header.pointer_size) + 1,
                       i * bytes_num(blend.header.pointer_size)),
                blend.header.endianness)]

\* the address the field of a call holds, the first block it stands for
Stored(c) == IF Held(Bytes29(c)) = <<>> THEN RtAddress(0) ELSE Held(Bytes29(c))[1]
Stands(c) == FirstAt(blend, Stored(c))

RECURSIVE FirstOfEach(_)
\* the first blocks the addresses of a list stand for, those of no block left out
FirstOfEach(as) ==
    IF as = <<>> THEN <<>>
    ELSE IF FirstAt(blend, Head(as)) = 0 THEN FirstOfEach(Tail(as))
    ELSE <<FirstAt(blend, Head(as))>> \o FirstOfEach(Tail(as))

\* the instances of a list stand on the blocks ks, in order
StandOn(l, ks) == [i \in 1..Len(l) |-> l[i].data] = [i \in 1..Len(ks) |-> DataBlock(ks[i])]
\* the instances of a list stand on the first blocks of ks
StandOnFirst(l, ks) == Len(l) <= Len(ks) /\ StandOn(l, SubSeq(ks, 1, Len(l)))

\* the instances of a list are the first equal pieces of the data of block k, cut
\* in as many pieces as the block's count
PiecesOf(l, k) ==
    /\ blend.blocks[k].count > 0
    /\ Len(l) <= blend.blocks[k].count
    /\ \A i \in 1..Len(l) :
          l[i].data =
          DataRaw(SubSeq(blend.blocks[k].data,
                         (i - 1) * (Len(blend.blocks[k].data) \div blend.blocks[k].count) + 1,
                         i * (Len(blend.blocks[k].data) \div blend.blocks[k].count)))

\* the addresses a list field of a call walks: those of the pointed block for a
\* pointer to pointers, those of the field for an array of pointers
Walked(c) ==
    IF OnKind(c, "PointerArray", 1) THEN Held(Bytes29(c))
    ELSE IF Stands(c) = 0 THEN <<>>
    ELSE Held(blend.blocks[Stands(c)].data)

\* block k read through the field of a call gives an instance: a Subsidiary block
\* whose struct generate_subsidiary_fields cannot tell gives none
Offers(c, k) ==
    /\ pointed_instance(blend, fields_get(c.self, c.name), k, TRUE).ok
    /\ pointed_instance(blend, fields_get(c.self, c.name), k, TRUE).val.some

\* the first blocks of the addresses a call walks that give an instance
WalkedBlocks(c) == SelectSeq(FirstOfEach(Walked(c)), LAMBDA k : Offers(c, k))

\* C29: an address stands for the first Principal or Subsidiary block of the file
\* that carries it, whichever accessor resolves it and however many blocks carry
\* it: a get through a pointer returns an instance on that block, is_valid of a
\* pointer answers whether there is such a block, get_<T>_vec reads that block's
\* bytes, get_vec and get_iter cut that block in pieces, and the elements get_vec
\* returns and an iterator yields for a pointer to pointers or an array of
\* pointers stand on the first blocks of their addresses.
C29_FirstBlock ==
    /\ (call.op = "get" /\ OnKind(call, "Pointer", 1) /\ call.res.ok)
       => (Stands(call) # 0 /\ call.res.val.data = DataBlock(Stands(call)))
    /\ (call.op = "is_valid" /\ OnKind(call, "Pointer", 1) /\ call.res.ok)
       => (call.res.val = (Stands(call) # 0))
    /\ (call.op = "get_value_vec" /\ OnKind(call, "Pointer", 1) /\ call.res.ok)
       => (/\ Stands(call) # 0
           /\ call.res.val = chunks(blend.blocks[Stands(call)].data, size_of(call.prim),
                                    blend.header.endianness))
    /\ (call.op = "get_vec" /\ OnKind(call, "Pointer", 1) /\ call.res.ok)
       => (/\ Stands(call) # 0
           /\ Len(call.res.val) = blend.blocks[Stands(call)].count
           /\ PiecesOf(call.res.val, Stands(call)))
    /\ (call.op = "get_vec" /\ OnKind(call, "Pointer", 2) /\ call.res.ok)
       => (Stands(call) # 0 /\ StandOn(call.res.val, WalkedBlocks(call)))
    /\ (call.op = "get_vec" /\ OnKind(call, "PointerArray", 1) /\ call.res.ok)
       => StandOn(call.res.val, WalkedBlocks(call))
    /\ (call.op = "get_iter" /\ OnKind(call, "Pointer", 1) /\ iter.yielded # <<>>)
       => (Stands(call) # 0 /\ PiecesOf(iter.yielded, Stands(call)))
    /\ (call.op = "get_iter" /\ iter.state # "none"
        /\ (OnKind(call, "Pointer", 2) \/ OnKind(call, "PointerArray", 1)))
       => (/\ StandOnFirst(iter.yielded, WalkedBlocks(call))
           /\ (iter.state = "done" => StandOn(iter.yielded, WalkedBlocks(call))))

\* an accessor has resolved an address that several blocks of the file carry
ResolvedShared(op, kind, n) ==
    /\ call.op = op /\ OnKind(call, kind, n) /\ call.res.ok
    /\ Stands(call) # 0
    /\ Cardinality(Resolvable(blend, Stored(call))) > 1

\* a get through `parent` returned an instance while two Bases carry the address
C29_Witness ==
    /\ ResolvedShared("get", "Pointer", 1)
    /\ call.name = Name_parent
    /\ blend.blocks[2].memory_address = blend.blocks[3].memory_address

---------------------------------------------------------------------------
(* Files whose stored indices name no struct, type or name *)

\* TinyDna, and TinyDna with its struct's type, its field's type or its field's
\* name one past the end of the table
IxDnas ==
    {TinyDna,
     [TinyDna EXCEPT !.structs[1].type_index = Len(TinyDna.types)],
     [TinyDna EXCEPT !.structs[1].fields[1].type_index = Len(TinyDna.types)],
     [TinyDna EXCEPT !.structs[1].fields[1].name_index = Len(TinyDna.names)]}

\* the first record of a file: "OB", DATA or GLOB with the SDNA index d
IxFirst(d) == {Rec(OB00, 1, d, 1, <<7>>), Rec(DATA, 1, d, 1, <<7>>), Rec(GLOB, 1, d, 1, <<>>)}

\* the bytes cut off a file: none, or the terminator and one byte more
IxCuts == {0, Len(ENDB) + 1}

\* a file of a block and the DNA1 block, its SDNA index within or one past
\* dna.structs
InitIndices ==
    /\ \E h \in {<<BLENDER, Dash, LowerV>>, <<BLENDER, Underscore, UpperV>>} :
       \E x \in IxDnas : \E d \in 0..Len(TinyDna.structs) : \E c \in IxCuts :
       \E r \in IxFirst(d) :
         /\ gen = Gen(h[1], h[2], h[3],
                      <<r, Rec(DNA1, 2, 0, 1,
                               WriteDna(x, IF h[3] = LowerV THEN "Little" ELSE "Big"))>>, c)
         /\ input = Buffer(gen, WriteFile(gen))
    /\ pc = "start"
    /\ rest = <<>>
    /\ header = NoHeader
    /\ blocks = <<>>
    /\ res = NoResult
    /\ out = NoOut
    /\ blend = NoBlend
    /\ inst = NoInst
    /\ call = NoCall
    /\ iter = NoIter

\* Blend::new on the RawBlend that from_data returned
New ==
    /\ pc = "done"
    /\ out.ok
    /\ blend' = out.blend
    /\ pc' = "runtime"
    /\ UNCHANGED <<gen, input, rest, header, blocks, res, out, inst, call, iter>>

NextIndices ==
    \/ NextFramer
    \/ New
    \/ (pc = "runtime" /\ RootBlocks)
    \/ (pc = "runtime" /\ GetByCode)

SpecIndices == InitIndices /\ [][NextIndices]_vars

\* every index a RawBlend stores names an entry of its table
InRange(b) ==
    /\ \A k \in 1..Len(b.blocks) :
          b.blocks[k].variant \in {"Principal", "Subsidiary", "Global"}
          => b.blocks[k].dna_index < Len(b.dna.structs)
    /\ \A s \in 1..Len(b.dna.structs) :
          /\ b.dna.structs[s].type_index < Len(b.dna.types)
          /\ \A f \in 1..Len(b.dna.structs[s].fields) :
                /\ b.dna.structs[s].fields[f].type_index < Len(b.dna.types)
                /\ b.dna.structs[s].fields[f].name_index < Len(b.dna.names)

\* C30 as claimed: every index of a RawBlend that from_data returned is in range,
\* and get_all_root_blocks and get_by_code on it do not abort.
C30_AsClaimed ==
    /\ out.ok => InRange(out.blend)
    /\ (pc = "runtime" /\ call.op \in {"get_all_root_blocks", "get_by_code"})
       => call.res.ok

====
